---- MODULE Spec2Model ----
(***************************************************************************)
(* ShopInsight Pro (Dhandaa AI): the JSON store, the session, the record   *)
(* forms and the analytics of src/, as a state machine.                    *)
(*                                                                         *)
(* Money is counted in whole currency units and every quotient the code    *)
(* computes in floating point (means, profit margin, thresholds 0.3, 0.8, *)
(* 1.2) is kept as an exact fraction <<numerator, denominator>>, compared  *)
(* by cross multiplication.  Dates are day numbers.                        *)
(***************************************************************************)
EXTENDS Integers, Sequences, FiniteSets, TLC

VARIABLES users, businesses, sales, inventory, orders, debts, session, rendered,
          running

vars == <<users, businesses, sales, inventory, orders, debts, session, rendered,
          running>>

store == <<users, businesses, sales, inventory, orders, debts>>

(***************************************************************************)
(* Bounds of the model.                                                    *)
(***************************************************************************)
MaxSales == 2
MaxInventory == 1
MaxOrders == 1
MaxDebts == 1
MaxMarginSales == 2
MaxTrendSales == 8
MaxDatedSales == 8
MaxBackDated == 1
MaxDebtSales == 2
MaxDebtRecords == 2
MaxStockItems == 5
MaxReorderItems == 2
MaxProductSales == 4
MaxBookItems == 1
MaxBookOrders == 2
MaxBookDebts == 2
MaxLedgerSales == 2
MaxLedgerRecords == 1
MaxStoreLen == 2
MaxNeighbourRecords == 1

(***************************************************************************)
(* config.py                                                               *)
(***************************************************************************)
DEFAULT_ADMIN_USERNAME == "admin"
DEFAULT_ADMIN_PASSWORD == "admin123"
ORDER_STATUSES == <<"Pending", "Completed", "Cancelled">>
DEBT_STATUSES == <<"Pending", "Partially Paid", "Paid">>
DEBT_TYPES == <<"Receivable (They owe you)", "Payable (You owe them)">>
LOW_PROFIT_MARGIN_THRESHOLD == 20
HIGH_PROFIT_MARGIN_THRESHOLD == 40
DEBT_WARNING_RATIO == <<3, 10>>
LOW_STOCK_THRESHOLD == 10
SALES_GROWTH_THRESHOLD == <<12, 10>>
SALES_DECLINE_THRESHOLD == <<8, 10>>

(***************************************************************************)
(* Exact fractions standing for the code's floats.                         *)
(***************************************************************************)
Frac(n, d) == <<n, d>>
FracOfInt(n) == <<n, 1>>
FracMul(a, b) == <<a[1] * b[1], a[2] * b[2]>>
FracLT(a, b) == a[1] * b[2] < b[1] * a[2]
FracGT(a, b) == FracLT(b, a)
FracEq(a, b) == a[1] * b[2] = b[1] * a[2]

\* Python's None in a session field, the None calculate_metrics returns, and
\* the empty dict of a fresh JSON file.
None == "None"
NoMetrics == [none |-> TRUE]
EmptyDict == [k \in {} |-> <<>>]

RECURSIVE SumSeq(_)
SumSeq(s) == IF s = <<>> THEN 0 ELSE s[1] + SumSeq(Tail(s))

\* the column of a list of records
Column(df, field) == [i \in 1..Len(df) |-> df[i][field]]

\* Series.mean()
Mean(col) == Frac(SumSeq(col), Len(col))

\* s[:n]
Head_n(s, n) == SubSeq(s, 1, IF Len(s) < n THEN Len(s) ELSE n)
\* s[-n:]
Tail_n(s, n) == SubSeq(s, IF Len(s) < n THEN 1 ELSE Len(s) - n + 1, Len(s))

(***************************************************************************)
(* data_manager.py                                                         *)
(***************************************************************************)
hash_password(password) == <<"sha256", password>>

file_map == {"sales", "inventory", "orders", "debts"}

\* load_json of the file a data type is stored in
load_file(data_type) ==
    CASE data_type = "sales" -> sales
      [] data_type = "inventory" -> inventory
      [] data_type = "orders" -> orders
      [] data_type = "debts" -> debts

\* dict.get(key, default)
DictGet(d, key, default) == IF key \in DOMAIN d THEN d[key] ELSE default

\* d[key] = value
DictSet(d, key, value) ==
    [k \in DOMAIN d \cup {key} |-> IF k = key THEN value ELSE d[k]]

\* a slip: the newest record first
get_user_data_newest_first(username, data_type) ==
    IF data_type \notin file_map THEN <<>>
    ELSE LET records == DictGet(load_file(data_type), username, <<>>)
         IN  [i \in 1..Len(records) |-> records[Len(records) + 1 - i]]

get_user_data(username, data_type) ==
    IF data_type \notin file_map THEN <<>>
    ELSE DictGet(load_file(data_type), username, <<>>)

\* a slip: one list shared by all accounts, the record added to each
appended_for_all(all_data, username, new_data) ==
    [k \in DOMAIN all_data \cup {username} |->
        Append(DictGet(all_data, k, <<>>), new_data)]

\* a slip: insert(0, new_data) for append(new_data)
appended_at_front(all_data, username, new_data) ==
    DictSet(all_data, username,
            <<new_data>> \o DictGet(all_data, username, <<>>))

\* the file's content after save_user_data's load, append and save
appended(all_data, username, new_data) ==
    DictSet(all_data, username, Append(DictGet(all_data, username, <<>>), new_data))

\* save_user_data's writes; an unknown data type writes nothing
save_user_data(username, data_type, new_data) ==
    IF data_type \notin file_map
    THEN UNCHANGED <<sales, inventory, orders, debts>>
    ELSE /\ sales' = IF data_type = "sales"
                     THEN appended(sales, username, new_data) ELSE sales
         /\ inventory' = IF data_type = "inventory"
                         THEN appended(inventory, username, new_data)
                         ELSE inventory
         /\ orders' = IF data_type = "orders"
                      THEN appended(orders, username, new_data) ELSE orders
         /\ debts' = IF data_type = "debts"
                     THEN appended(debts, username, new_data) ELSE debts

\* what save_user_data returns
save_user_data_returns(data_type) == data_type \in file_map

\* a slip: the given list added to the stored one (+=) instead of replacing it
update_user_data_extending(username, data_type, updated_list) ==
    IF data_type \notin file_map
    THEN UNCHANGED <<sales, inventory, orders, debts>>
    ELSE LET extended(all_data) ==
                 DictSet(all_data, username,
                         DictGet(all_data, username, <<>>) \o updated_list)
         IN  /\ sales' = IF data_type = "sales" THEN extended(sales) ELSE sales
             /\ inventory' = IF data_type = "inventory" THEN extended(inventory)
                             ELSE inventory
             /\ orders' = IF data_type = "orders" THEN extended(orders)
                          ELSE orders
             /\ debts' = IF data_type = "debts" THEN extended(debts) ELSE debts

\* update_user_data's writes; an unknown data type writes nothing
update_user_data(username, data_type, updated_list) ==
    IF data_type \notin file_map
    THEN UNCHANGED <<sales, inventory, orders, debts>>
    ELSE /\ sales' = IF data_type = "sales"
                     THEN DictSet(sales, username, updated_list) ELSE sales
         /\ inventory' = IF data_type = "inventory"
                         THEN DictSet(inventory, username, updated_list)
                         ELSE inventory
         /\ orders' = IF data_type = "orders"
                      THEN DictSet(orders, username, updated_list) ELSE orders
         /\ debts' = IF data_type = "debts"
                     THEN DictSet(debts, username, updated_list) ELSE debts

\* what update_user_data returns
update_user_data_returns(data_type) == data_type \in file_map

\* Two browser sessions, each run by a script thread of its own.  running[t]
\* is where the script of session t stands: the account it is signed in as,
\* its place in the handler it runs (idle between runs), the record or the
\* registration it is working on, the file content it loaded, and the
\* records whose save_user_data returned True to it.
Threads == {1, 2}
NoRecord == [none |-> TRUE]
NotRunning ==
    [username |-> None, pc |-> "idle", new_data |-> NoRecord,
     registration |-> NoRecord, all_data |-> EmptyDict, file |-> 0,
     returned |-> <<>>]

\* the state init_data_files leaves on a fresh data directory
Init ==
    /\ users = [u \in {DEFAULT_ADMIN_USERNAME} |->
                  [password |-> hash_password(DEFAULT_ADMIN_PASSWORD),
                   type |-> "admin"]]
    /\ businesses = EmptyDict
    /\ sales = EmptyDict
    /\ inventory = EmptyDict
    /\ orders = EmptyDict
    /\ debts = EmptyDict
    /\ session = [logged_in |-> FALSE, user_type |-> None,
                  username |-> None, business_name |-> None]
    /\ rendered = [page |-> "login"]
    /\ running = [t \in Threads |-> NotRunning]

(***************************************************************************)
(* auth.py                                                                 *)
(***************************************************************************)
\* len() of the texts the model types into the password fields
StrLen(text) ==
    CASE text = "" -> 0
      [] text = "abc" -> 3
      [] text = "secret1" -> 7
      [] text = "admin123" -> 8

\* a slip: the password not compared
login_user_any_password(username, password) ==
    IF username \in DOMAIN users
    THEN [success |-> TRUE, user_type |-> users[username].type,
          business_name |-> IF "business_name" \in DOMAIN users[username]
                            THEN users[username].business_name ELSE "Admin"]
    ELSE [success |-> FALSE, user_type |-> None, business_name |-> None]

login_user(username, password) ==
    IF username \in DOMAIN users
       /\ users[username].password = hash_password(password)
    THEN [success |-> TRUE, user_type |-> users[username].type,
          business_name |-> IF "business_name" \in DOMAIN users[username]
                            THEN users[username].business_name ELSE "Admin"]
    ELSE [success |-> FALSE, user_type |-> None, business_name |-> None]

\* what register_user returns first: False for a taken name
register_user_success(username) == username \notin DOMAIN users

\* a slip: the check for a taken name left out
register_user_overwriting(username, password, business_name, business_type) ==
    /\ users' = DictSet(users, username,
                    [password |-> hash_password(password), type |-> "user",
                     business_name |-> business_name,
                     business_type |-> business_type])
    /\ businesses' = DictSet(businesses, username,
                         [name |-> business_name, type |-> business_type])
    /\ sales' = DictSet(sales, username, <<>>)
    /\ inventory' = DictSet(inventory, username, <<>>)
    /\ orders' = DictSet(orders, username, <<>>)
    /\ debts' = DictSet(debts, username, <<>>)

\* a slip: the loop over the record files stopping before the debts file
register_user_without_debts(username, password, business_name, business_type) ==
    IF username \in DOMAIN users
    THEN UNCHANGED store
    ELSE /\ users' = DictSet(users, username,
                         [password |-> hash_password(password), type |-> "user",
                          business_name |-> business_name,
                          business_type |-> business_type])
         /\ businesses' = DictSet(businesses, username,
                              [name |-> business_name, type |-> business_type])
         /\ sales' = DictSet(sales, username, <<>>)
         /\ inventory' = DictSet(inventory, username, <<>>)
         /\ orders' = DictSet(orders, username, <<>>)
         /\ debts' = debts

\* register_user's writes (created_at is left out: time is not modelled)
register_user(username, password, business_name, business_type) ==
    IF username \in DOMAIN users
    THEN UNCHANGED store
    ELSE /\ users' = DictSet(users, username,
                         [password |-> hash_password(password), type |-> "user",
                          business_name |-> business_name,
                          business_type |-> business_type])
         /\ businesses' = DictSet(businesses, username,
                              [name |-> business_name, type |-> business_type])
         /\ sales' = DictSet(sales, username, <<>>)
         /\ inventory' = DictSet(inventory, username, <<>>)
         /\ orders' = DictSet(orders, username, <<>>)
         /\ debts' = DictSet(debts, username, <<>>)

(***************************************************************************)
(* analytics.py                                                            *)
(***************************************************************************)
\* f"{x:.1f}": the fraction rounded to tenths (ties to even), in tenths
Format1f(x) ==
    LET t == x[1] * 10
        q == t \div x[2]
        r == t % x[2]
    IN  IF 2 * r > x[2] THEN q + 1
        ELSE IF 2 * r = x[2] /\ q % 2 = 1 THEN q + 1
        ELSE q

\* the order pandas gives the group keys (sorted product names)
ProductOrder == <<"A", "B", "C">>
ProductRank(product) == CHOOSE i \in 1..Len(ProductOrder) : ProductOrder[i] = product

\* sales_df['product'].unique() as a set
ProductsOf(sales_df) == {sales_df[i].product : i \in 1..Len(sales_df)}

\* sales_df.groupby('product')['quantity'].sum()[product]
QuantityOf(sales_df, product) ==
    SumSeq(Column(SelectSeq(sales_df, LAMBDA s : s.product = product), "quantity"))

\* product_sales.index[0] after sort_values(ascending=False): the largest
\* summed quantity, equal sums staying in group-key order
TopProduct(sales_df) ==
    CHOOSE p \in ProductsOf(sales_df) :
        \A q \in ProductsOf(sales_df) :
            \/ QuantityOf(sales_df, q) < QuantityOf(sales_df, p)
            \/ /\ QuantityOf(sales_df, q) = QuantityOf(sales_df, p)
               /\ ProductRank(p) <= ProductRank(q)

\* a slip: the factor 100 forgotten
profit_margin_as_ratio(total_profit, total_revenue) ==
    IF total_revenue > 0 THEN Frac(total_profit, total_revenue)
    ELSE FracOfInt(0)

\* (total_profit / total_revenue * 100) if total_revenue > 0 else 0
profit_margin_of(total_profit, total_revenue) ==
    IF total_revenue > 0 THEN Frac(total_profit * 100, total_revenue)
    ELSE FracOfInt(0)

\* a slip: every debt not yet Paid counted, Partially Paid included
calculate_metrics_unpaid_debts(username) ==
    LET sales_ == get_user_data(username, "sales")
        inventory_ == get_user_data(username, "inventory")
        orders_ == get_user_data(username, "orders")
        debts_ == get_user_data(username, "debts")
        total_revenue == SumSeq(Column(sales_, "total_amount"))
        total_cost == SumSeq(Column(sales_, "cost"))
        total_profit == total_revenue - total_cost
    IN  IF sales_ = <<>> THEN NoMetrics
        ELSE [total_revenue |-> total_revenue,
              total_profit |-> total_profit,
              profit_margin |-> profit_margin_of(total_profit, total_revenue),
              inventory_value |->
                  SumSeq([i \in 1..Len(inventory_) |->
                             inventory_[i].quantity * inventory_[i].unit_price]),
              pending_orders |->
                  SumSeq(Column(SelectSeq(orders_,
                             LAMBDA o : o.status = "Pending"), "amount")),
              total_debts |->
                  SumSeq(Column(SelectSeq(debts_,
                             LAMBDA d : d.status # "Paid"), "amount")),
              sales_df |-> sales_,
              total_sales_count |-> Len(sales_)]

calculate_metrics(username) ==
    LET sales_ == get_user_data(username, "sales")
        inventory_ == get_user_data(username, "inventory")
        orders_ == get_user_data(username, "orders")
        debts_ == get_user_data(username, "debts")
        total_revenue == SumSeq(Column(sales_, "total_amount"))
        total_cost == SumSeq(Column(sales_, "cost"))
        total_profit == total_revenue - total_cost
    IN  IF sales_ = <<>> THEN NoMetrics
        ELSE [total_revenue |-> total_revenue,
              total_profit |-> total_profit,
              profit_margin |-> profit_margin_of(total_profit, total_revenue),
              inventory_value |->
                  SumSeq([i \in 1..Len(inventory_) |->
                             inventory_[i].quantity * inventory_[i].unit_price]),
              pending_orders |->
                  SumSeq(Column(SelectSeq(orders_,
                             LAMBDA o : o.status = "Pending"), "amount")),
              total_debts |->
                  SumSeq(Column(SelectSeq(debts_,
                             LAMBDA d : d.status = "Pending"), "amount")),
              sales_df |-> sales_,
              total_sales_count |-> Len(sales_)]

Insight(type, title, message) == [type |-> type, title |-> title, message |-> message]

\* a slip: the product of the largest single sale, not of the largest sum
top_performer_single_sale(sales_df) ==
    IF sales_df # <<>> /\ ProductsOf(sales_df) # {}
    THEN LET best == CHOOSE i \in 1..Len(sales_df) :
                         \A j \in 1..Len(sales_df) :
                             \/ sales_df[j].quantity < sales_df[i].quantity
                             \/ /\ sales_df[j].quantity = sales_df[i].quantity
                                /\ ProductRank(sales_df[i].product)
                                      <= ProductRank(sales_df[j].product)
         IN  <<Insight("success", "Top Performer",
                       [product |-> sales_df[best].product,
                        quantity |-> sales_df[best].quantity])>>
    ELSE <<>>

\* a slip: no best-seller named while there is a single sale
top_performer_from_two_sales(sales_df) ==
    IF Len(sales_df) > 1 /\ ProductsOf(sales_df) # {}
    THEN <<Insight("success", "Top Performer",
                   [product |-> TopProduct(sales_df),
                    quantity |-> QuantityOf(sales_df, TopProduct(sales_df))])>>
    ELSE <<>>

\* Insight 1: best selling product
top_performer(sales_df) ==
    IF sales_df # <<>> /\ ProductsOf(sales_df) # {}
    THEN <<Insight("success", "Top Performer",
                   [product |-> TopProduct(sales_df),
                    quantity |-> QuantityOf(sales_df, TopProduct(sales_df))])>>
    ELSE <<>>

\* a slip: <= for < at the low threshold
margin_insight_at_threshold(metrics) ==
    IF ~FracGT(metrics.profit_margin, FracOfInt(LOW_PROFIT_MARGIN_THRESHOLD))
    THEN <<Insight("warning", "Low Profit Margin",
                   [profit_margin |-> Format1f(metrics.profit_margin)])>>
    ELSE IF FracGT(metrics.profit_margin, FracOfInt(HIGH_PROFIT_MARGIN_THRESHOLD))
    THEN <<Insight("success", "Excellent Margins",
                   [profit_margin |-> Format1f(metrics.profit_margin)])>>
    ELSE <<>>

\* Insight 2: profit margin analysis
margin_insight(metrics) ==
    IF FracLT(metrics.profit_margin, FracOfInt(LOW_PROFIT_MARGIN_THRESHOLD))
    THEN <<Insight("warning", "Low Profit Margin",
                   [profit_margin |-> Format1f(metrics.profit_margin)])>>
    ELSE IF FracGT(metrics.profit_margin, FracOfInt(HIGH_PROFIT_MARGIN_THRESHOLD))
    THEN <<Insight("success", "Excellent Margins",
                   [profit_margin |-> Format1f(metrics.profit_margin)])>>
    ELSE <<>>

\* (recent_sales/older_sales - 1) * 100, formatted; numpy divides by 0 to inf
growth_pct(recent_sales, older_sales) ==
    IF older_sales[1] = 0 THEN "inf"
    ELSE Format1f(Frac((recent_sales[1] * older_sales[2]
                          - older_sales[1] * recent_sales[2]) * 100,
                       older_sales[1] * recent_sales[2]))

\* The code compares float64 values.  Over whole amounts the float comparison
\* agrees with the exact one except when recent equals the threshold times
\* older exactly; there rounding decides.  For two means of 7 amounts these
\* are the sums of the older window (up to 35) at which the float comparison
\* is True at such a tie (CPython: R/7 > (O/7)*1.2 with 10R = 12O, and
\* R/7 < (O/7)*0.8 with 10R = 8O).
GrowthTieSums == {15, 30}
DeclineTieSums == {5, 10, 15, 20, 25, 30}

\* recent_sales > older_sales * SALES_GROWTH_THRESHOLD
float_growth(recent_sales, older_sales) ==
    \/ FracGT(recent_sales, FracMul(older_sales, SALES_GROWTH_THRESHOLD))
    \/ /\ FracEq(recent_sales, FracMul(older_sales, SALES_GROWTH_THRESHOLD))
       /\ older_sales[1] \in GrowthTieSums

\* recent_sales < older_sales * SALES_DECLINE_THRESHOLD
float_decline(recent_sales, older_sales) ==
    \/ FracLT(recent_sales, FracMul(older_sales, SALES_DECLINE_THRESHOLD))
    \/ /\ FracEq(recent_sales, FracMul(older_sales, SALES_DECLINE_THRESHOLD))
       /\ older_sales[1] \in DeclineTieSums

\* a list of sales in date order, equal dates staying in stored order
RECURSIVE InsertByDate(_, _)
InsertByDate(sorted, sale) ==
    IF sorted = <<>> THEN <<sale>>
    ELSE IF sorted[Len(sorted)].date <= sale.date THEN Append(sorted, sale)
    ELSE Append(InsertByDate(SubSeq(sorted, 1, Len(sorted) - 1), sale),
                sorted[Len(sorted)])

RECURSIVE SortByDate(_)
SortByDate(sales_df) ==
    IF sales_df = <<>> THEN <<>>
    ELSE InsertByDate(SortByDate(SubSeq(sales_df, 1, Len(sales_df) - 1)),
                      sales_df[Len(sales_df)])

\* a slip: the growth threshold left out, any rise counts as growth
trend_message_any_rise(recent_sales, older_sales) ==
    IF FracGT(recent_sales, older_sales)
    THEN <<Insight("success", "Growth Trend",
                   [growth_pct |-> growth_pct(recent_sales, older_sales)])>>
    ELSE IF float_decline(recent_sales, older_sales)
    THEN <<Insight("warning", "Declining Sales", <<>>)>>
    ELSE <<>>

\* Insight 3: the message for the two window means
trend_message(recent_sales, older_sales) ==
    IF float_growth(recent_sales, older_sales)
    THEN <<Insight("success", "Growth Trend",
                   [growth_pct |-> growth_pct(recent_sales, older_sales)])>>
    ELSE IF float_decline(recent_sales, older_sales)
    THEN <<Insight("warning", "Declining Sales", <<>>)>>
    ELSE <<>>

\* a slip: the windows taken after sorting the sales by date
trend_insight_by_date(sales_df) ==
    IF Len(sales_df) > 7
    THEN trend_message(
             Mean(Column(Tail_n(SortByDate(sales_df), 7), "total_amount")),
             Mean(Column(Head_n(SortByDate(sales_df), 7), "total_amount")))
    ELSE <<>>

\* Insight 3: sales trends
trend_insight(sales_df) ==
    IF Len(sales_df) > 7
    THEN trend_message(Mean(Column(Tail_n(sales_df, 7), "total_amount")),
                       Mean(Column(Head_n(sales_df, 7), "total_amount")))
    ELSE <<>>

\* a slip: >= for >
debt_insight_at_ratio(metrics) ==
    IF ~FracLT(FracOfInt(metrics.total_debts),
               FracMul(FracOfInt(metrics.total_revenue), DEBT_WARNING_RATIO))
    THEN <<Insight("error", "High Debt Alert",
                   [total_debts |-> metrics.total_debts])>>
    ELSE <<>>

\* Insight 4: debt management
debt_insight(metrics) ==
    IF FracGT(FracOfInt(metrics.total_debts),
              FracMul(FracOfInt(metrics.total_revenue), DEBT_WARNING_RATIO))
    THEN <<Insight("error", "High Debt Alert",
                   [total_debts |-> metrics.total_debts])>>
    ELSE <<>>

\* the low_stock list of generate_insights
low_stock_of(inventory_) ==
    SelectSeq(inventory_, LAMBDA item : item.quantity < LOW_STOCK_THRESHOLD)

\* a slip: the suffix from 3 low items on, not from 4
stock_insight_early_suffix(username) ==
    LET low_stock == low_stock_of(get_user_data(username, "inventory"))
    IN  IF low_stock # <<>>
        THEN <<Insight("warning", "Low Stock Alert",
                       [count |-> Len(low_stock),
                        product_names |-> Column(Head_n(low_stock, 3), "name"),
                        more_text |-> IF Len(low_stock) >= 3
                                      THEN <<" and ", Len(low_stock) - 3, " more">>
                                      ELSE <<>>])>>
        ELSE <<>>

\* Insight 5: inventory
stock_insight(username) ==
    LET low_stock == low_stock_of(get_user_data(username, "inventory"))
    IN  IF low_stock # <<>>
        THEN <<Insight("warning", "Low Stock Alert",
                       [count |-> Len(low_stock),
                        product_names |-> Column(Head_n(low_stock, 3), "name"),
                        more_text |-> IF Len(low_stock) > 3
                                      THEN <<" and ", Len(low_stock) - 3, " more">>
                                      ELSE <<>>])>>
        ELSE <<>>

\* a slip: <= 3 for < 3
diversity_insight_up_to_three(sales_df) ==
    IF sales_df # <<>> /\ Cardinality(ProductsOf(sales_df)) <= 3
    THEN <<Insight("info", "Product Diversity",
                   [unique_products |-> Cardinality(ProductsOf(sales_df))])>>
    ELSE <<>>

\* Insight 6: product diversity
diversity_insight(sales_df) ==
    IF sales_df # <<>> /\ Cardinality(ProductsOf(sales_df)) < 3
    THEN <<Insight("info", "Product Diversity",
                   [unique_products |-> Cardinality(ProductsOf(sales_df))])>>
    ELSE <<>>

\* a slip: the insights list kept between calls, each call adding to the
\* list the dashboard drew last
generate_insights_accumulating(username) ==
    LET metrics == calculate_metrics(username)
        kept == IF rendered.page = "dashboard" THEN rendered.insights ELSE <<>>
    IN  IF metrics = NoMetrics THEN <<>>
        ELSE kept \o top_performer(metrics.sales_df) \o margin_insight(metrics)
             \o trend_insight(metrics.sales_df) \o debt_insight(metrics)
             \o stock_insight(username) \o diversity_insight(metrics.sales_df)

generate_insights(username) ==
    LET metrics == calculate_metrics(username)
    IN  IF metrics = NoMetrics THEN <<>>
        ELSE top_performer(metrics.sales_df) \o margin_insight(metrics)
             \o trend_insight(metrics.sales_df) \o debt_insight(metrics)
             \o stock_insight(username) \o diversity_insight(metrics.sales_df)

\* Series.round(2): the fraction rounded to hundredths, in hundredths
Round2(x) ==
    LET t == x[1] * 100
        q == t \div x[2]
        r == t % x[2]
    IN  IF 2 * r > x[2] THEN q + 1
        ELSE IF 2 * r = x[2] /\ q % 2 = 1 THEN q + 1
        ELSE q

\* one row of df.groupby('product').agg(sum) with its profit_margin_%
product_row(df, product) ==
    LET rows == SelectSeq(df, LAMBDA s : s.product = product)
    IN  [product |-> product,
         quantity |-> SumSeq(Column(rows, "quantity")),
         total_amount |-> SumSeq(Column(rows, "total_amount")),
         profit |-> SumSeq(Column(rows, "profit")),
         profit_margin_pct |->
             Round2(Frac(SumSeq(Column(rows, "profit")) * 100,
                         SumSeq(Column(rows, "total_amount"))))]

\* sort_values('total_amount', ascending=False) of the rows of a set of
\* products, equal amounts staying in group-key order
RECURSIVE product_rows_sorted(_, _)
product_rows_sorted(df, products) ==
    IF products = {} THEN <<>>
    ELSE LET first == CHOOSE p \in products :
                 \A q \in products :
                     \/ product_row(df, q).total_amount
                           < product_row(df, p).total_amount
                     \/ /\ product_row(df, q).total_amount
                             = product_row(df, p).total_amount
                        /\ ProductRank(p) <= ProductRank(q)
         IN  <<product_row(df, first)>>
             \o product_rows_sorted(df, products \ {first})

get_product_performance(username) ==
    LET metrics == calculate_metrics(username)
    IN  IF metrics = NoMetrics THEN NoMetrics
        ELSE product_rows_sorted(metrics.sales_df, ProductsOf(metrics.sales_df))

\* a slip: head(7) for tail(7)
predict_from_first_seven(username) ==
    LET metrics == calculate_metrics(username)
    IN  IF metrics = NoMetrics THEN FracOfInt(0)
        ELSE IF Len(metrics.sales_df) < 7 THEN FracOfInt(0)
        ELSE FracMul(Mean(Column(Head_n(metrics.sales_df, 7), "total_amount")),
                     FracOfInt(30))

predict_monthly_revenue(username) ==
    LET metrics == calculate_metrics(username)
    IN  IF metrics = NoMetrics THEN FracOfInt(0)
        ELSE IF Len(metrics.sales_df) < 7 THEN FracOfInt(0)
        ELSE FracMul(Mean(Column(Tail_n(metrics.sales_df, 7), "total_amount")),
                     FracOfInt(30))

(***************************************************************************)
(* The pages: what a run of the script leaves on the screen.               *)
(***************************************************************************)
\* a slip: the dashboard drawn whether or not there are metrics
show_dashboard_always(username) ==
    [page |-> "dashboard", metrics |-> calculate_metrics(username),
     insights_invoked |-> TRUE, insights |-> generate_insights(username),
     fallback |-> generate_insights(username) = <<>>]

\* dashboard.py: show_dashboard_page with display_ai_insights
show_dashboard_page(username) ==
    LET metrics == calculate_metrics(username)
    IN  IF metrics # NoMetrics
        THEN [page |-> "dashboard", metrics |-> metrics,
              insights_invoked |-> TRUE,
              insights |-> generate_insights(username),
              fallback |-> generate_insights(username) = <<>>]
        ELSE [page |-> "welcome", metrics |-> metrics,
              insights_invoked |-> FALSE, insights |-> <<>>,
              fallback |-> FALSE]

\* analytics_page.py: filter_by_period; datetime.now() is later than the
\* midnight of its day, so a sale dated exactly `days` days ago is cut off
filter_by_period(sales_df, period, now) ==
    IF period = "All Time" THEN sales_df
    ELSE LET days == CASE period = "Last 7 Days" -> 7
                       [] period = "Last 30 Days" -> 30
                       [] period = "Last 90 Days" -> 90
                       [] OTHER -> 30
         IN  SelectSeq(sales_df, LAMBDA s : s.date > now - days)

\* analytics_page.py: show_analytics_page down to display_predictive_insights
show_analytics_page(username, period, now) ==
    LET metrics == calculate_metrics(username)
    IN  IF metrics = NoMetrics
        THEN [page |-> "analytics", shown |-> "no sales"]
        ELSE IF filter_by_period(metrics.sales_df, period, now) = <<>>
        THEN [page |-> "analytics", shown |-> "no data for period"]
        ELSE IF Len(metrics.sales_df) >= 7
        THEN [page |-> "analytics", shown |-> "projection",
              product_stats |-> get_product_performance(username),
              projected_monthly |-> predict_monthly_revenue(username)]
        ELSE [page |-> "analytics", shown |-> "need 7 days",
              product_stats |-> get_product_performance(username)]

\* sales.py: show_sales_page (the form's error and view_sales_table's summary)
show_sales_page(sales_raw, error) ==
    [page |-> "sales", error |-> error,
     total_sales |-> SumSeq(Column(sales_raw, "total_amount")),
     total_profit |-> SumSeq(Column(sales_raw, "profit")),
     count |-> Len(sales_raw)]

\* inventory.py: view_inventory_table's status column
stock_status(row) ==
    IF row.quantity < row.reorder_level THEN "Low Stock" ELSE "In Stock"

\* inventory.py: show_inventory_page (the form's error, the status column and
\* the 'Low Stock Items' metric of view_inventory_table)
show_inventory_page(inventory_, error) ==
    [page |-> "inventory", error |-> error,
     status |-> [i \in 1..Len(inventory_) |-> stock_status(inventory_[i])],
     low_stock_count |->
         Len(SelectSeq(inventory_,
                       LAMBDA item : item.quantity < item.reorder_level))]

\* a slip: the admin dashboard for every account type
main_page_admin_for_all(user_type, username) == [page |-> "admin"]

\* app.py: main, for the session a login has just set
main_page(user_type, username) ==
    IF user_type = "admin" THEN [page |-> "admin"]
    ELSE show_dashboard_page(username)

LoggedInUser == session.logged_in /\ session.user_type # "admin"

(***************************************************************************)
(* auth.py: the login page's two handlers; the dashboards' logout buttons  *)
(***************************************************************************)
login_button(username, password) ==
    /\ ~session.logged_in
    /\ LET result == login_user(username, password)
       IN  IF username # "" /\ password # ""
           THEN IF result.success
                THEN /\ session' = [logged_in |-> TRUE,
                                    user_type |-> result.user_type,
                                    username |-> username,
                                    business_name |-> result.business_name]
                     /\ rendered' = main_page(result.user_type, username)
                ELSE /\ rendered' = [page |-> "login",
                                     message |-> "Invalid credentials"]
                     /\ UNCHANGED session
           ELSE /\ rendered' = [page |-> "login",
                                message |-> "Please fill all fields"]
                /\ UNCHANGED session
    /\ UNCHANGED <<store, running>>

registration_form(new_username, new_password, confirm_password, business_name, business_type) ==
    /\ ~session.logged_in
    /\ IF new_username # "" /\ new_password # "" /\ confirm_password # ""
          /\ business_name # ""
       THEN IF new_password # confirm_password
            THEN /\ rendered' = [page |-> "login",
                                 message |-> "Passwords don't match"]
                 /\ UNCHANGED store
            ELSE IF StrLen(new_password) < 6
            THEN /\ rendered' = [page |-> "login",
                       message |-> "Password must be at least 6 characters"]
                 /\ UNCHANGED store
            ELSE /\ register_user(new_username, new_password,
                                  business_name, business_type)
                 /\ rendered' = [page |-> "login", message |->
                        IF register_user_success(new_username)
                        THEN "Registration successful!"
                        ELSE "Username already exists"]
       ELSE /\ rendered' = [page |-> "login",
                            message |-> "Please fill all required fields"]
            /\ UNCHANGED store
    /\ UNCHANGED <<session, running>>

\* user_dashboard.py: the Logout button
user_logout ==
    /\ LoggedInUser
    /\ session' = [logged_in |-> FALSE, user_type |-> None,
                   username |-> None, business_name |-> None]
    /\ rendered' = [page |-> "login"]
    /\ UNCHANGED <<store, running>>

\* admin_dashboard.py: the Logout button (business_name is not reset)
admin_logout ==
    /\ session.logged_in /\ session.user_type = "admin"
    /\ session' = [session EXCEPT !.logged_in = FALSE, !.user_type = None,
                                  !.username = None]
    /\ rendered' = [page |-> "login"]
    /\ UNCHANGED <<store, running>>

(***************************************************************************)
(* The record forms (sales.py, inventory.py, orders.py, debts.py).  After  *)
(* a saved record st.rerun() draws the form's page again.                  *)
(***************************************************************************)
\* a slip: the cost left out of the profit
sale_data_profit_without_cost(username, product, quantity, unit_price, cost_per_unit, sale_date, customer_name) ==
    LET total_amount == quantity * unit_price
        total_cost == quantity * cost_per_unit
    IN  [id |-> Len(get_user_data(username, "sales")) + 1,
         product |-> product,
         quantity |-> quantity,
         unit_price |-> unit_price,
         total_amount |-> total_amount,
         cost |-> total_cost,
         profit |-> total_amount,
         customer |-> IF customer_name # "" THEN customer_name ELSE "N/A",
         date |-> sale_date]

\* the record the sale form builds from its fields
sale_data(username, product, quantity, unit_price, cost_per_unit, sale_date, customer_name) ==
    LET total_amount == quantity * unit_price
        total_cost == quantity * cost_per_unit
        profit == total_amount - total_cost
    IN  [id |-> Len(get_user_data(username, "sales")) + 1,
         product |-> product,
         quantity |-> quantity,
         unit_price |-> unit_price,
         total_amount |-> total_amount,
         cost |-> total_cost,
         profit |-> profit,
         customer |-> IF customer_name # "" THEN customer_name ELSE "N/A",
         date |-> sale_date]

\* a slip: only the product name required, a price of 0 accepted
add_sale_form_any_price(username, product, quantity, unit_price, cost_per_unit, sale_date, customer_name) ==
    LET new_data == sale_data(username, product, quantity, unit_price,
                              cost_per_unit, sale_date, customer_name)
    IN  /\ quantity >= 1 /\ unit_price >= 0 /\ cost_per_unit >= 0
        /\ IF product # ""
           THEN /\ save_user_data(username, "sales", new_data)
                /\ rendered' = show_sales_page(
                                   Append(get_user_data(username, "sales"),
                                          new_data), FALSE)
           ELSE /\ rendered' = show_sales_page(
                                   get_user_data(username, "sales"), TRUE)
                /\ UNCHANGED <<sales, inventory, orders, debts>>
        /\ UNCHANGED <<users, businesses, session, running>>

add_sale_form(username, product, quantity, unit_price, cost_per_unit, sale_date, customer_name) ==
    LET new_data == sale_data(username, product, quantity, unit_price,
                              cost_per_unit, sale_date, customer_name)
    IN  /\ quantity >= 1 /\ unit_price >= 0 /\ cost_per_unit >= 0
        /\ IF product # "" /\ unit_price > 0
           THEN /\ save_user_data(username, "sales", new_data)
                /\ rendered' = show_sales_page(
                                   Append(get_user_data(username, "sales"),
                                          new_data), FALSE)
           ELSE /\ rendered' = show_sales_page(
                                   get_user_data(username, "sales"), TRUE)
                /\ UNCHANGED <<sales, inventory, orders, debts>>
        /\ UNCHANGED <<users, businesses, session, running>>

add_inventory_form(username, item_name, quantity, unit_price, category, reorder_level, supplier) ==
    LET inventory_data == [id |-> Len(get_user_data(username, "inventory")) + 1,
                           name |-> item_name,
                           quantity |-> quantity,
                           unit_price |-> unit_price,
                           category |-> category,
                           reorder_level |-> reorder_level,
                           supplier |-> IF supplier # "" THEN supplier
                                        ELSE "N/A"]
    IN  /\ quantity >= 0 /\ unit_price >= 0 /\ reorder_level >= 0
        /\ IF item_name # "" /\ quantity >= 0
           THEN /\ save_user_data(username, "inventory", inventory_data)
                /\ rendered' = show_inventory_page(
                                   Append(get_user_data(username, "inventory"),
                                          inventory_data), FALSE)
           ELSE /\ rendered' = show_inventory_page(
                                   get_user_data(username, "inventory"), TRUE)
                /\ UNCHANGED <<sales, inventory, orders, debts>>
        /\ UNCHANGED <<users, businesses, session, running>>

\* a slip: the id counted from 0
add_order_form_id_from_zero(username, order_name, amount, customer, status) ==
    LET order_data == [id |-> Len(get_user_data(username, "orders")),
                       description |-> order_name,
                       amount |-> amount,
                       customer |-> customer,
                       status |-> status]
    IN  /\ amount >= 0
        /\ IF order_name # "" /\ amount > 0 /\ customer # ""
           THEN /\ save_user_data(username, "orders", order_data)
                /\ rendered' = [page |-> "orders", error |-> FALSE]
           ELSE /\ rendered' = [page |-> "orders", error |-> TRUE]
                /\ UNCHANGED <<sales, inventory, orders, debts>>
        /\ UNCHANGED <<users, businesses, session, running>>

add_order_form(username, order_name, amount, customer, status) ==
    LET order_data == [id |-> Len(get_user_data(username, "orders")) + 1,
                       description |-> order_name,
                       amount |-> amount,
                       customer |-> customer,
                       status |-> status]
    IN  /\ amount >= 0
        /\ IF order_name # "" /\ amount > 0 /\ customer # ""
           THEN /\ save_user_data(username, "orders", order_data)
                /\ rendered' = [page |-> "orders", error |-> FALSE]
           ELSE /\ rendered' = [page |-> "orders", error |-> TRUE]
                /\ UNCHANGED <<sales, inventory, orders, debts>>
        /\ UNCHANGED <<users, businesses, session, running>>

add_debt_form(username, debtor_name, amount, debt_type, status) ==
    LET debt_data == [id |-> Len(get_user_data(username, "debts")) + 1,
                      debtor |-> debtor_name,
                      amount |-> amount,
                      type |-> debt_type,
                      status |-> status]
    IN  /\ amount >= 0
        /\ IF debtor_name # "" /\ amount > 0
           THEN /\ save_user_data(username, "debts", debt_data)
                /\ rendered' = [page |-> "debts", error |-> FALSE]
           ELSE /\ rendered' = [page |-> "debts", error |-> TRUE]
                /\ UNCHANGED <<sales, inventory, orders, debts>>
        /\ UNCHANGED <<users, businesses, session, running>>

(***************************************************************************)
(* user_dashboard.py: the sidebar's navigation                             *)
(***************************************************************************)
\* a slip: the metrics call saves the sales back, sorted by date
ShowDashboard_saving_sorted ==
    /\ LoggedInUser
    /\ rendered' = show_dashboard_page(session.username)
    /\ sales' = DictSet(sales, session.username,
                        SortByDate(get_user_data(session.username, "sales")))
    /\ UNCHANGED <<users, businesses, inventory, orders, debts, session,
                   running>>

ShowDashboard ==
    /\ LoggedInUser
    /\ rendered' = show_dashboard_page(session.username)
    /\ UNCHANGED <<store, session, running>>

ShowInventory ==
    /\ LoggedInUser
    /\ rendered' = show_inventory_page(
                       get_user_data(session.username, "inventory"), FALSE)
    /\ UNCHANGED <<store, session, running>>

show_analytics(periods, days) ==
    /\ LoggedInUser
    /\ \E period \in periods, now \in days :
          rendered' = show_analytics_page(session.username, period, now)
    /\ UNCHANGED <<store, session, running>>

(***************************************************************************)
(* Spec: every handler, on small inputs.                                   *)
(***************************************************************************)
UsernameInputs == {"", "admin", "shop1"}
PasswordInputs == {"", "abc", "secret1", "admin123"}
NewPasswordInputs == {"", "abc", "secret1"}
BusinessNameInputs == {"", "Shop"}

RoomFor(data_type, max) == Len(get_user_data(session.username, data_type)) < max

Register ==
    \E u \in UsernameInputs, p \in NewPasswordInputs, c \in NewPasswordInputs,
       b \in BusinessNameInputs :
        registration_form(u, p, c, b, "Retail Shop")

Login == \E u \in UsernameInputs, p \in PasswordInputs : login_button(u, p)

Logout == user_logout

AdminLogout == admin_logout

AddSale ==
    /\ LoggedInUser /\ RoomFor("sales", MaxSales)
    /\ \E product \in {"", "A"}, unit_price \in {0, 5}, cost_per_unit \in {3, 6} :
        add_sale_form(session.username, product, 1, unit_price,
                      cost_per_unit, 1, "")

AddInventory ==
    /\ LoggedInUser /\ RoomFor("inventory", MaxInventory)
    /\ \E item_name \in {"", "A"}, quantity \in {5, 12} :
        add_inventory_form(session.username, item_name, quantity, 2, "Other",
                           10, "")

AddOrder ==
    /\ LoggedInUser /\ RoomFor("orders", MaxOrders)
    /\ \E amount \in {0, 5}, status \in {"Pending", "Completed"} :
        add_order_form(session.username, "order", amount, "customer", status)

AddDebt ==
    /\ LoggedInUser /\ RoomFor("debts", MaxDebts)
    /\ \E amount \in {0, 4}, status \in {"Pending", "Paid"} :
        add_debt_form(session.username, "debtor", amount, DEBT_TYPES[1], status)

ShowAnalytics == show_analytics({"Last 7 Days", "All Time"}, {2, 9})

Next ==
    \/ Register \/ Login \/ Logout \/ AdminLogout
    \/ AddSale \/ AddInventory \/ AddOrder \/ AddDebt
    \/ ShowDashboard \/ ShowInventory \/ ShowAnalytics

Spec == Init /\ [][Next]_vars

(***************************************************************************)
(* The focused specifications: one shop signs in and fills one ledger.     *)
(***************************************************************************)
OpenShop == registration_form("shop1", "secret1", "secret1", "Shop", "Retail Shop")

SignIn == login_button("shop1", "secret1")

ShowProjection == show_analytics({"All Time"}, {2})

\* SpecMargin: sales at price 5 whose unit cost puts the margin below, at,
\* between and above the two thresholds, beside other records
MarginSale ==
    /\ LoggedInUser /\ RoomFor("sales", MaxMarginSales)
    /\ \E product \in {"", "A"}, quantity \in {1, 2}, unit_price \in {0, 5},
          cost_per_unit \in {2, 3, 4, 6} :
        add_sale_form(session.username, product, quantity, unit_price,
                      cost_per_unit, 1, "")

MarginItem ==
    /\ LoggedInUser /\ RoomFor("inventory", MaxInventory)
    /\ add_inventory_form(session.username, "A", 5, 2, "Other", 10, "")

MarginOrder ==
    /\ LoggedInUser /\ RoomFor("orders", MaxOrders)
    /\ add_order_form(session.username, "order", 5, "customer", "Pending")

MarginDebt ==
    /\ LoggedInUser /\ RoomFor("debts", MaxDebts)
    /\ add_debt_form(session.username, "debtor", 1, DEBT_TYPES[1], "Pending")

NextMargin ==
    \/ OpenShop \/ SignIn \/ MarginSale \/ MarginItem \/ MarginOrder
    \/ MarginDebt \/ ShowDashboard

SpecMargin == Init /\ [][NextMargin]_vars

\* SpecTrend: sales of 1, 2 or 4 units of money, all on one day
TrendSale ==
    /\ LoggedInUser /\ RoomFor("sales", MaxTrendSales)
    /\ \E unit_price \in {1, 2, 4} :
        add_sale_form(session.username, "A", 1, unit_price, 0, 1, "")

NextTrend == OpenShop \/ SignIn \/ TrendSale \/ ShowDashboard \/ ShowProjection

SpecTrend == Init /\ [][NextTrend]_vars

\* SpecDated: sales of 1 or 4, dated today (day 2) or, at most MaxBackDated
\* of them, back-dated (day 1)
BackDated(sales_) == Len(SelectSeq(sales_, LAMBDA s : s.date = 1))

DatedSale ==
    /\ LoggedInUser /\ RoomFor("sales", MaxDatedSales)
    /\ \E unit_price \in {1, 4}, sale_date \in {1, 2} :
        /\ sale_date = 1 =>
              BackDated(get_user_data(session.username, "sales")) < MaxBackDated
        /\ add_sale_form(session.username, "A", 1, unit_price, 0, sale_date, "")

NextDated == OpenShop \/ SignIn \/ DatedSale \/ ShowDashboard \/ ShowProjection

SpecDated == Init /\ [][NextDated]_vars

\* SpecDebt: revenue 10 or 20 against debts of 3, 4 or 6
DebtSale ==
    /\ LoggedInUser /\ RoomFor("sales", MaxDebtSales)
    /\ add_sale_form(session.username, "A", 1, 10, 5, 1, "")

DebtRecord ==
    /\ LoggedInUser /\ RoomFor("debts", MaxDebtRecords)
    /\ \E amount \in {3, 4, 6}, status \in {"Pending", "Partially Paid", "Paid"},
          debt_type \in {DEBT_TYPES[1], DEBT_TYPES[2]} :
        add_debt_form(session.username, "debtor", amount, debt_type, status)

NextDebt == OpenShop \/ SignIn \/ DebtSale \/ DebtRecord \/ ShowDashboard

SpecDebt == Init /\ [][NextDebt]_vars

\* SpecStock: one sale and up to MaxStockItems items, in stock or low, at the
\* form's default reorder level
StockSale ==
    /\ LoggedInUser /\ RoomFor("sales", 1)
    /\ add_sale_form(session.username, "A", 1, 10, 7, 1, "")

StockItem ==
    /\ LoggedInUser /\ RoomFor("inventory", MaxStockItems)
    /\ \E item_name \in {"A", "B"}, quantity \in {9, 10} :
        add_inventory_form(session.username, item_name, quantity, 2, "Other",
                           10, "")

NextStock == OpenShop \/ SignIn \/ StockSale \/ StockItem \/ ShowDashboard

SpecStock == Init /\ [][NextStock]_vars

\* SpecReorder: one sale and items whose own reorder level is 3, 10 or 20
ReorderItem ==
    /\ LoggedInUser /\ RoomFor("inventory", MaxReorderItems)
    /\ \E quantity \in {5, 10, 12}, reorder_level \in {3, 10, 20} :
        add_inventory_form(session.username, "A", quantity, 2, "Other",
                           reorder_level, "")

NextReorder ==
    \/ OpenShop \/ SignIn \/ StockSale \/ ReorderItem \/ ShowDashboard
    \/ ShowInventory

SpecReorder == Init /\ [][NextReorder]_vars

\* SpecProducts: sales of 1 or 2 units of three products
ProductSale ==
    /\ LoggedInUser /\ RoomFor("sales", MaxProductSales)
    /\ \E product \in {"A", "B", "C"}, quantity \in {1, 2} :
        add_sale_form(session.username, product, quantity, 5, 3, 1, "")

NextProducts == OpenShop \/ SignIn \/ ProductSale \/ ShowDashboard

SpecProducts == Init /\ [][NextProducts]_vars

\* SpecBooks: one sale beside items, orders of every status and debts of
\* every status and both types
BookItem ==
    /\ LoggedInUser /\ RoomFor("inventory", MaxBookItems)
    /\ \E quantity \in {0, 3} :
        add_inventory_form(session.username, "A", quantity, 2 + quantity,
                           "Other", 10, "")

BookOrder ==
    /\ LoggedInUser /\ RoomFor("orders", MaxBookOrders)
    /\ \E i \in 1..Len(ORDER_STATUSES) :
        add_order_form(session.username, "order", 4 + i, "customer",
                       ORDER_STATUSES[i])

BookDebt ==
    /\ LoggedInUser /\ RoomFor("debts", MaxBookDebts)
    /\ \E i \in 1..Len(DEBT_STATUSES), j \in 1..Len(DEBT_TYPES) :
        /\ (i = 2) => (j = 1)
        /\ add_debt_form(session.username, "debtor", 2 * i + j, DEBT_TYPES[j],
                         DEBT_STATUSES[i])

NextBooks ==
    \/ OpenShop \/ SignIn \/ StockSale \/ BookItem \/ BookOrder \/ BookDebt
    \/ ShowDashboard

SpecBooks == Init /\ [][NextBooks]_vars

\* SpecLedger: two shops and the admin name; the shops register, sign in and
\* out in turn and fill all four lists
LedgerRegister ==
    \E u \in {"shop1", "shop2", DEFAULT_ADMIN_USERNAME} :
        registration_form(u, "secret1", "secret1", "Shop", "Retail Shop")

LedgerLogin == \E u \in {"shop1", "shop2"} : login_button(u, "secret1")

LedgerSale ==
    /\ LoggedInUser /\ RoomFor("sales", MaxLedgerSales)
    /\ \E product \in {"", "A"} :
        add_sale_form(session.username, product, 1, 5, 3, 1, "")

LedgerItem ==
    /\ LoggedInUser /\ RoomFor("inventory", MaxLedgerRecords)
    /\ add_inventory_form(session.username, "A", 5, 2, "Other", 10, "")

LedgerOrder ==
    /\ LoggedInUser /\ RoomFor("orders", MaxLedgerRecords)
    /\ add_order_form(session.username, "order", 5, "customer", "Pending")

LedgerDebt ==
    /\ LoggedInUser /\ RoomFor("debts", MaxLedgerRecords)
    /\ add_debt_form(session.username, "debtor", 4, DEBT_TYPES[1], "Pending")

NextLedger ==
    \/ LedgerRegister \/ LedgerLogin \/ Logout
    \/ LedgerSale \/ LedgerItem \/ LedgerOrder \/ LedgerDebt
    \/ ShowDashboard \/ ShowInventory \/ ShowProjection

SpecLedger == Init /\ [][NextLedger]_vars

\* SpecStore: a caller of data_manager alone; rendered holds its last call
\* and what the call returned
StoreAccounts == {"shop1", "shop2"}
StoreTypes == {"sales", "debts", "users"}
StoreLists == {<<>>, <<[id |-> 2], [id |-> 1]>>}

SaveCall ==
    \E username \in StoreAccounts, data_type \in StoreTypes :
        LET new_data == [id |-> Len(get_user_data(username, data_type)) + 1]
        IN  /\ Len(get_user_data(username, data_type)) < MaxStoreLen
            /\ save_user_data(username, data_type, new_data)
            /\ rendered' = [page |-> "store", call |-> "save_user_data",
                            username |-> username, data_type |-> data_type,
                            new_data |-> new_data,
                            returned |-> save_user_data_returns(data_type)]
            /\ UNCHANGED <<users, businesses, session, running>>

UpdateCall ==
    \E username \in StoreAccounts, data_type \in StoreTypes,
       updated_list \in StoreLists :
        /\ update_user_data(username, data_type, updated_list)
        /\ rendered' = [page |-> "store", call |-> "update_user_data",
                        username |-> username, data_type |-> data_type,
                        updated_list |-> updated_list,
                        returned |-> update_user_data_returns(data_type)]
        /\ UNCHANGED <<users, businesses, session, running>>

GetCall ==
    \E username \in StoreAccounts \cup {"nobody"}, data_type \in StoreTypes :
        /\ rendered' = [page |-> "store", call |-> "get_user_data",
                        username |-> username, data_type |-> data_type,
                        returned |-> get_user_data(username, data_type)]
        /\ UNCHANGED <<store, session, running>>

NextStore == SaveCall \/ UpdateCall \/ GetCall

SpecStore == Init /\ [][NextStore]_vars

\* SpecNeighbours: the first shop records a sale, the second shop a sale and
\* items, orders and debts, each signing in after the other signed out
NeighbourSale ==
    /\ LoggedInUser /\ RoomFor("sales", 1)
    /\ add_sale_form(session.username, "A", 1, 5, 3, 1, "")

NeighbourItem ==
    /\ LoggedInUser /\ session.username = "shop2"
    /\ RoomFor("inventory", MaxNeighbourRecords)
    /\ add_inventory_form(session.username, "A", 5, 2, "Other", 10, "")

NeighbourOrder ==
    /\ LoggedInUser /\ session.username = "shop2"
    /\ RoomFor("orders", MaxNeighbourRecords)
    /\ add_order_form(session.username, "order", 5, "customer", "Pending")

NeighbourDebt ==
    /\ LoggedInUser /\ session.username = "shop2"
    /\ RoomFor("debts", MaxNeighbourRecords)
    /\ add_debt_form(session.username, "debtor", 4, DEBT_TYPES[1], "Pending")

NextNeighbours ==
    \/ LedgerRegister \/ LedgerLogin \/ Logout
    \/ NeighbourSale \/ NeighbourItem \/ NeighbourOrder \/ NeighbourDebt
    \/ ShowDashboard

SpecNeighbours == Init /\ [][NextNeighbours]_vars

\* SpecForm: one shop and its sale form alone, with and without a product
\* name, at prices 0 and 5, quantities 1 and 2 and four unit costs
MaxFormSales == 2

FormSale ==
    /\ LoggedInUser /\ RoomFor("sales", MaxFormSales)
    /\ \E product \in {"", "A"}, quantity \in {1, 2}, unit_price \in {0, 5},
          cost_per_unit \in {2, 3, 4, 6} :
        add_sale_form(session.username, product, quantity, unit_price,
                      cost_per_unit, 1, "")

NextForm == OpenShop \/ SignIn \/ FormSale \/ ShowDashboard

SpecForm == Init /\ [][NextForm]_vars

\* SpecAccess: the login page alone.  Two shop names and the admin name are
\* registered under two business names and signed in to with right and wrong
\* passwords.
AccessNames == {"", DEFAULT_ADMIN_USERNAME, "shop1", "shop2"}
AccessBusinessNames == {"", "Shop", "Store"}

AccessRegister ==
    \E u \in AccessNames, p \in NewPasswordInputs, c \in NewPasswordInputs,
       b \in AccessBusinessNames :
        registration_form(u, p, c, b, "Retail Shop")

AccessLogin == \E u \in AccessNames, p \in PasswordInputs : login_button(u, p)

NextAccess == AccessRegister \/ AccessLogin \/ Logout \/ AdminLogout

SpecAccess == Init /\ [][NextAccess]_vars

(***************************************************************************)
(* Two sessions at once.  Streamlit runs the script of each session in a   *)
(* thread of its own, and the store is read and written a whole file at a  *)
(* time (data_manager.py:15-25) with nothing held in between: after one    *)
(* script's load_json and before its save_json the other script may run.   *)
(* Each load and each save is one step here, and a save writes its file at *)
(* once.  session and rendered belong to the one-session handlers above;   *)
(* here the account of session t is running[t].username.                   *)
(***************************************************************************)
\* the login button of session t (an admin login is left to the one-session
\* handlers)
race_login(t, username, password) ==
    /\ running[t].pc = "idle" /\ running[t].username = None
    /\ username # "" /\ password # ""
    /\ LET result == login_user(username, password)
       IN  IF result.success /\ result.user_type # "admin"
           THEN running' = [running EXCEPT ![t].username = username]
           ELSE UNCHANGED running
    /\ UNCHANGED <<store, session, rendered>>

\* the files register_user writes, in its order
RegisterFiles == <<"users", "businesses", "sales", "inventory", "orders", "debts">>

\* load_json of one of the six files
file_content(name) ==
    CASE name = "users" -> users
      [] name = "businesses" -> businesses
      [] OTHER -> load_file(name)

\* what register_user stores under the new name in each file
register_entry(name, registration) ==
    CASE name = "users" ->
             [password |-> hash_password(registration.password),
              type |-> "user",
              business_name |-> registration.business_name,
              business_type |-> registration.business_type]
      [] name = "businesses" ->
             [name |-> registration.business_name,
              type |-> registration.business_type]
      [] OTHER -> <<>>

\* save_json of one of the six files
save_file(name, data) ==
    /\ users' = IF name = "users" THEN data ELSE users
    /\ businesses' = IF name = "businesses" THEN data ELSE businesses
    /\ sales' = IF name = "sales" THEN data ELSE sales
    /\ inventory' = IF name = "inventory" THEN data ELSE inventory
    /\ orders' = IF name = "orders" THEN data ELSE orders
    /\ debts' = IF name = "debts" THEN data ELSE debts

\* the registration form of session t up to register_user's load of the
\* users file and its check of the name
race_register_submit(t, new_username, new_password, confirm_password, business_name, business_type) ==
    /\ running[t].pc = "idle" /\ running[t].username = None
    /\ IF /\ new_username # "" /\ new_password # "" /\ confirm_password # ""
          /\ business_name # ""
          /\ new_password = confirm_password
          /\ StrLen(new_password) >= 6
          /\ new_username \notin DOMAIN users
       THEN running' = [running EXCEPT
                ![t].pc = "register_loaded",
                ![t].file = 1,
                ![t].all_data = users,
                ![t].registration =
                    [username |-> new_username, password |-> new_password,
                     business_name |-> business_name,
                     business_type |-> business_type]]
       ELSE UNCHANGED running
    /\ UNCHANGED <<store, session, rendered>>

\* register_user: the new name's entry set in the loaded copy and the file
\* saved; after the last file the call returns
race_register_save(t) ==
    /\ running[t].pc = "register_loaded"
    /\ LET name == RegisterFiles[running[t].file]
       IN  save_file(name, DictSet(running[t].all_data,
                                   running[t].registration.username,
                                   register_entry(name, running[t].registration)))
    /\ running' = IF running[t].file = Len(RegisterFiles)
                  THEN [running EXCEPT ![t].pc = "idle", ![t].file = 0,
                                       ![t].all_data = EmptyDict,
                                       ![t].registration = NoRecord]
                  ELSE [running EXCEPT ![t].pc = "register_saved",
                                       ![t].file = @ + 1,
                                       ![t].all_data = EmptyDict]
    /\ UNCHANGED <<session, rendered>>

\* register_user: the load of the next file
race_register_load(t) ==
    /\ running[t].pc = "register_saved"
    /\ running' = [running EXCEPT
            ![t].pc = "register_loaded",
            ![t].all_data = file_content(RegisterFiles[running[t].file])]
    /\ UNCHANGED <<store, session, rendered>>

\* the sale form of session t up to the call of save_user_data: the record
\* is built, its id from the list as stored now
race_sale_submit(t, product, quantity, unit_price, cost_per_unit, sale_date, customer_name) ==
    /\ running[t].pc = "idle" /\ running[t].username # None
    /\ quantity >= 1 /\ unit_price >= 0 /\ cost_per_unit >= 0
    /\ IF product # "" /\ unit_price > 0
       THEN running' = [running EXCEPT
                ![t].pc = "submitted",
                ![t].new_data = sale_data(running[t].username, product,
                                          quantity, unit_price, cost_per_unit,
                                          sale_date, customer_name)]
       ELSE UNCHANGED running
    /\ UNCHANGED <<store, session, rendered>>

\* save_user_data: all_data = load_json(...)
race_save_load(t) ==
    /\ running[t].pc = "submitted"
    /\ running' = [running EXCEPT ![t].pc = "loaded", ![t].all_data = sales]
    /\ UNCHANGED <<store, session, rendered>>

\* a slip: the file read again at the save, the record added to what is there
race_save_reloading(t) ==
    /\ running[t].pc = "loaded"
    /\ sales' = appended(sales, running[t].username, running[t].new_data)
    /\ running' = [running EXCEPT
            ![t].pc = "idle",
            ![t].all_data = EmptyDict,
            ![t].new_data = NoRecord,
            ![t].returned = Append(@, running[t].new_data)]
    /\ UNCHANGED <<users, businesses, inventory, orders, debts, session, rendered>>

\* save_user_data: the append to the loaded copy, save_json and return True
race_save(t) ==
    /\ running[t].pc = "loaded"
    /\ sales' = appended(running[t].all_data, running[t].username,
                         running[t].new_data)
    /\ running' = [running EXCEPT
            ![t].pc = "idle",
            ![t].all_data = EmptyDict,
            ![t].new_data = NoRecord,
            ![t].returned = Append(@, running[t].new_data)]
    /\ UNCHANGED <<users, businesses, inventory, orders, debts, session, rendered>>

\* SpecRace: session 1 opens shop1 and sells as shop1; session 2 opens shop2
\* and sells as shop1 or as shop2.  Each session records up to MaxRaceCalls
\* sales, told apart by the customer and the day typed in.
MaxRaceCalls == 2

RaceRegister ==
    \E t \in Threads :
        race_register_submit(t, IF t = 1 THEN "shop1" ELSE "shop2",
                             "secret1", "secret1", "Shop", "Retail Shop")

RaceRegisterSave == \E t \in Threads : race_register_save(t)

RaceRegisterLoad == \E t \in Threads : race_register_load(t)

RaceLogin ==
    \E t \in Threads, u \in {"shop1", "shop2"} :
        /\ t = 1 => u = "shop1"
        /\ login_user(u, "secret1").success
        /\ race_login(t, u, "secret1")

RaceSale ==
    \E t \in Threads :
        /\ Len(running[t].returned) < MaxRaceCalls
        /\ race_sale_submit(t, "A", 1, 5, 3, Len(running[t].returned) + 1,
                            IF t = 1 THEN "customer1" ELSE "customer2")

RaceLoad == \E t \in Threads : race_save_load(t)

RaceSave == \E t \in Threads : race_save(t)

NextRace ==
    \/ RaceRegister \/ RaceRegisterSave \/ RaceRegisterLoad
    \/ RaceLogin \/ RaceSale \/ RaceLoad \/ RaceSave

SpecRace == Init /\ [][NextRace]_vars

(***************************************************************************)
(* The properties.                                                         *)
(***************************************************************************)
\* the sum of a field over the records lo..hi of a list, by index
RECURSIVE Total(_, _, _, _)
Total(records, field, lo, hi) ==
    IF hi < lo THEN 0 ELSE records[hi][field] + Total(records, field, lo, hi - 1)

TotalAll(records, field) == Total(records, field, 1, Len(records))

\* every account name the store or the session knows
Accounts == DOMAIN users \cup DOMAIN sales \cup {"nobody"}

\* the insights of a given title
Titled(insights, title) == SelectSeq(insights, LAMBDA ins : ins.title = title)

\* the dashboard is on screen, drawn for the signed-in account
OnDashboard == LoggedInUser /\ rendered.page = "dashboard"

\* C1: for every non-empty sales list, total_profit is the sum of total_amount
\* minus the sum of cost, and profit_margin is 0 when the revenue is 0 and
\* 100 * total_profit / total_revenue otherwise.
C1_ProfitAndMargin ==
    \A u \in Accounts :
        LET sales_ == get_user_data(u, "sales")
            revenue == TotalAll(sales_, "total_amount")
            cost == TotalAll(sales_, "cost")
            metrics == calculate_metrics(u)
        IN  sales_ # <<>> =>
              /\ metrics.total_revenue = revenue
              /\ metrics.total_profit = revenue - cost
              /\ metrics.profit_margin[2] > 0
              /\ revenue = 0 => metrics.profit_margin[1] = 0
              /\ revenue # 0 =>
                    metrics.profit_margin[1] * revenue
                        = 100 * (revenue - cost) * metrics.profit_margin[2]

\* C1 witness: the dashboard shows two sales of revenue 10 and cost 7, a
\* profit of 3 and a margin of 30 %
C1_Witness ==
    /\ OnDashboard
    /\ Len(get_user_data(session.username, "sales")) = 2
    /\ rendered.metrics.total_revenue = 10
    /\ rendered.metrics.total_profit = 3
    /\ FracEq(rendered.metrics.profit_margin, FracOfInt(30))

\* C2: with an empty sales list calculate_metrics returns None whatever the
\* other lists hold, generate_insights returns the empty list, and the
\* dashboard shows the welcome message without invoking generate_insights.
C2_NoSalesNoData ==
    /\ \A u \in Accounts :
          get_user_data(u, "sales") = <<>> =>
             /\ calculate_metrics(u) = NoMetrics
             /\ generate_insights(u) = <<>>
             /\ show_dashboard_page(u).page = "welcome"
             /\ ~show_dashboard_page(u).insights_invoked
    /\ (LoggedInUser /\ rendered.page \in {"dashboard", "welcome"}
        /\ get_user_data(session.username, "sales") = <<>>)
          => rendered.page = "welcome" /\ ~rendered.insights_invoked

\* C2 witness: the welcome message is on screen for an account that has an
\* inventory item, an order and a debt but no sale
C2_Witness ==
    /\ LoggedInUser
    /\ rendered.page = "welcome"
    /\ get_user_data(session.username, "sales") = <<>>
    /\ get_user_data(session.username, "inventory") # <<>>
    /\ get_user_data(session.username, "orders") # <<>>
    /\ get_user_data(session.username, "debts") # <<>>

\* C3: predict_monthly_revenue is 0 for fewer than 7 sales and, from 7 sales
\* on, 30 times the mean total_amount of 7 records (the last 7 stored).
C3_Projection ==
    \A u \in Accounts :
        LET sales_ == get_user_data(u, "sales")
            n == Len(sales_)
            predicted == predict_monthly_revenue(u)
        IN  /\ predicted[2] > 0
            /\ n < 7 => predicted[1] = 0
            /\ n >= 7 =>
                  predicted[1] * 7
                      = 30 * Total(sales_, "total_amount", n - 6, n) * predicted[2]

\* C3 witness: the analytics page shows the projection for 8 sales whose
\* first and last amounts differ: 30 * (1+1+1+1+1+1+4) / 7
C3_Witness ==
    /\ LoggedInUser
    /\ rendered.page = "analytics" /\ rendered.shown = "projection"
    /\ Len(get_user_data(session.username, "sales")) = 8
    /\ Column(get_user_data(session.username, "sales"), "total_amount")
          = <<2, 1, 1, 1, 1, 1, 1, 4>>
    /\ FracEq(rendered.projected_monthly, Frac(300, 7))

\* the sums of the first 7 and of the last 7 amounts, in stored order
OlderSum(sales_) == Total(sales_, "total_amount", 1, 7)
RecentSum(sales_) == Total(sales_, "total_amount", Len(sales_) - 6, Len(sales_))

Growths(insights) == Titled(insights, "Growth Trend")
Declines(insights) == Titled(insights, "Declining Sales")

\* C4: from 7 sales on, predict_monthly_revenue is 30 times the mean of the 7
\* sales with the latest dates, also when sales were back-dated.
C4_LastSevenByDate ==
    \A u \in Accounts :
        LET sales_ == get_user_data(u, "sales")
            by_date == SortByDate(sales_)
            n == Len(sales_)
            predicted == predict_monthly_revenue(u)
        IN  n >= 7 =>
              predicted[1] * 7
                  = 30 * Total(by_date, "total_amount", n - 6, n) * predicted[2]

\* C5 as claimed: with at least 8 sales, one growth message and no decline
\* message whenever recent >= 1.2 * older, one decline message and no growth
\* message whenever recent <= 0.8 * older, neither otherwise.
C5_TrendWithEquality ==
    \A u \in Accounts :
        LET sales_ == get_user_data(u, "sales")
            older == OlderSum(sales_)
            recent == RecentSum(sales_)
            insights == generate_insights(u)
        IN  Len(sales_) >= 8 =>
              /\ 10 * recent >= 12 * older =>
                    Len(Growths(insights)) = 1 /\ Len(Declines(insights)) = 0
              /\ 10 * recent <= 8 * older =>
                    Len(Declines(insights)) = 1 /\ Len(Growths(insights)) = 0
              /\ (10 * recent < 12 * older /\ 10 * recent > 8 * older) =>
                    Len(Growths(insights)) = 0 /\ Len(Declines(insights)) = 0

\* C5 amended: with at least 8 sales, one growth message (a success) and no
\* decline message whenever recent > 1.2 * older, one decline message (a
\* warning) and no growth message whenever recent < 0.8 * older, neither when
\* recent lies strictly between; never both.
C5_StrictTrend ==
    \A u \in Accounts :
        LET sales_ == get_user_data(u, "sales")
            older == OlderSum(sales_)
            recent == RecentSum(sales_)
            insights == generate_insights(u)
        IN  Len(sales_) >= 8 =>
              /\ Len(Growths(insights)) + Len(Declines(insights)) <= 1
              /\ 10 * recent > 12 * older =>
                    /\ Len(Growths(insights)) = 1
                    /\ Growths(insights)[1].type = "success"
              /\ 10 * recent < 8 * older =>
                    /\ Len(Declines(insights)) = 1
                    /\ Declines(insights)[1].type = "warning"
              /\ (10 * recent < 12 * older /\ 10 * recent > 8 * older) =>
                    Len(Growths(insights)) = 0 /\ Len(Declines(insights)) = 0

\* C5 witness: the dashboard shows the growth message for 8 sales whose last
\* 7 amounts sum to 10 against 7 for the first 7
C5_Witness ==
    /\ OnDashboard
    /\ Column(get_user_data(session.username, "sales"), "total_amount")
          = <<1, 1, 1, 1, 1, 1, 1, 4>>
    /\ Len(Growths(rendered.insights)) = 1
    /\ Len(Declines(rendered.insights)) = 0

\* C6: no growth or decline message with 7 or fewer sales; from 8 sales on
\* the message is decided by the first 7 and the last 7 records in stored
\* order, whatever their dates.
C6_TrendWindows ==
    \A u \in Accounts :
        LET sales_ == get_user_data(u, "sales")
            trend == Growths(generate_insights(u)) \o Declines(generate_insights(u))
        IN  /\ Len(sales_) <= 7 => trend = <<>>
            /\ Len(sales_) >= 8 =>
                  /\ (\/ 10 * RecentSum(sales_) > 12 * OlderSum(sales_)
                      \/ 10 * RecentSum(sales_) < 8 * OlderSum(sales_))
                        => Len(trend) = 1
                  /\ (/\ 10 * RecentSum(sales_) < 12 * OlderSum(sales_)
                      /\ 10 * RecentSum(sales_) > 8 * OlderSum(sales_))
                        => trend = <<>>
                  /\ 10 * RecentSum(sales_) > 12 * OlderSum(sales_)
                        => trend[1].title = "Growth Trend"

\* C6 witness: 8 sales, the last one back-dated before all the others; the
\* dashboard shows growth, which the windows of the date order would not
C6_Witness ==
    /\ OnDashboard
    /\ LET sales_ == get_user_data(session.username, "sales")
       IN  /\ Len(sales_) = 8
           /\ sales_[8].date = 1
           /\ \A i \in 1..7 : sales_[i].date = 2
           /\ Len(Growths(rendered.insights)) = 1
           /\ 10 * RecentSum(SortByDate(sales_)) <= 12 * OlderSum(SortByDate(sales_))

\* the sum of the amounts of the first n debts that are Pending
RECURSIVE PendingTotal(_, _)
PendingTotal(debts_, n) ==
    IF n = 0 THEN 0
    ELSE PendingTotal(debts_, n - 1)
         + (IF debts_[n].status = "Pending" THEN debts_[n].amount ELSE 0)

\* C7: for non-empty sales, exactly one error-severity insight, the debt
\* alert, when the Pending debts sum to more than 0.3 * total_revenue, and no
\* error-severity insight when they sum to 0.3 * total_revenue or less.
C7_DebtAlert ==
    \A u \in Accounts :
        LET sales_ == get_user_data(u, "sales")
            debts_ == get_user_data(u, "debts")
            pending == PendingTotal(debts_, Len(debts_))
            revenue == TotalAll(sales_, "total_amount")
            errors == SelectSeq(generate_insights(u), LAMBDA ins : ins.type = "error")
        IN  sales_ # <<>> =>
              /\ 10 * pending > 3 * revenue =>
                    Len(errors) = 1 /\ errors[1].title = "High Debt Alert"
              /\ 10 * pending <= 3 * revenue => errors = <<>>

\* C7 witness: revenue 10 and a Pending debt of 4 beside a Paid one; the
\* dashboard shows the debt alert
C7_Witness ==
    /\ OnDashboard
    /\ rendered.metrics.total_revenue = 10
    /\ rendered.metrics.total_debts = 4
    /\ Len(get_user_data(session.username, "debts")) = 2
    /\ Len(SelectSeq(rendered.insights, LAMBDA ins : ins.type = "error")) = 1

\* the positions of the items the insight counts as low: below the threshold
\* of 10, which is also the reorder level the inventory form proposes
LowPositions(inventory_) ==
    {i \in 1..Len(inventory_) : inventory_[i].quantity < LOW_STOCK_THRESHOLD}

\* the names of the first `left` low items from position i on, in list order
RECURSIVE LowNamesFrom(_, _, _)
LowNamesFrom(inventory_, i, left) ==
    IF i > Len(inventory_) \/ left = 0 THEN <<>>
    ELSE IF i \in LowPositions(inventory_)
    THEN <<inventory_[i].name>> \o LowNamesFrom(inventory_, i + 1, left - 1)
    ELSE LowNamesFrom(inventory_, i + 1, left)

LowStockAlerts(insights) == Titled(insights, "Low Stock Alert")

\* C8: for non-empty sales and k low-stock items, a low-stock warning is
\* emitted iff k > 0; it names the first min(3, k) low items in inventory
\* order and carries 'and (k-3) more' iff k > 3.
C8_LowStockWarning ==
    \A u \in Accounts :
        LET inventory_ == get_user_data(u, "inventory")
            k == Cardinality(LowPositions(inventory_))
            alerts == LowStockAlerts(generate_insights(u))
        IN  get_user_data(u, "sales") # <<>> =>
              /\ k = 0 => alerts = <<>>
              /\ k > 0 =>
                    /\ Len(alerts) = 1
                    /\ alerts[1].type = "warning"
                    /\ alerts[1].message.count = k
                    /\ alerts[1].message.product_names
                          = LowNamesFrom(inventory_, 1, 3)
                    /\ Len(alerts[1].message.product_names)
                          = (IF k < 3 THEN k ELSE 3)
                    /\ k <= 3 => alerts[1].message.more_text = <<>>
                    /\ k > 3 => alerts[1].message.more_text
                                    = <<" and ", k - 3, " more">>

\* C8 witness: 5 items, 4 of them low; the dashboard's warning names the
\* first three low items and ends 'and 1 more'
C8_Witness ==
    /\ OnDashboard
    /\ Column(get_user_data(session.username, "inventory"), "quantity")
          = <<9, 10, 9, 9, 9>>
    /\ Column(get_user_data(session.username, "inventory"), "name")
          = <<"B", "A", "A", "B", "A">>
    /\ Len(LowStockAlerts(rendered.insights)) = 1
    /\ LowStockAlerts(rendered.insights)[1].message.product_names
          = <<"B", "A", "B">>
    /\ LowStockAlerts(rendered.insights)[1].message.more_text
          = <<" and ", 1, " more">>

\* C9: an item is low stock iff its quantity is below its own reorder_level,
\* and that one criterion decides the inventory table's status, the 'Low
\* Stock Items' count and the low-stock insight.
C9_LowStockByReorderLevel ==
    \A u \in Accounts :
        LET inventory_ == get_user_data(u, "inventory")
            low == {i \in 1..Len(inventory_) :
                       inventory_[i].quantity < inventory_[i].reorder_level}
            table == show_inventory_page(inventory_, FALSE)
            alerts == LowStockAlerts(generate_insights(u))
        IN  /\ \A i \in 1..Len(inventory_) :
                  table.status[i] = "Low Stock" <=> i \in low
            /\ table.low_stock_count = Cardinality(low)
            /\ get_user_data(u, "sales") # <<>> =>
                  IF low = {} THEN alerts = <<>>
                  ELSE /\ Len(alerts) = 1
                       /\ alerts[1].message.count = Cardinality(low)

\* the margin messages of an insight list
LowMargins(insights) == Titled(insights, "Low Profit Margin")
HighMargins(insights) == Titled(insights, "Excellent Margins")

\* C10: for non-empty sales the low-margin warning is emitted iff
\* profit_margin < 20, the excellent-margin success iff profit_margin > 40,
\* never both, and neither from 20 to 40 inclusive.
C10_MarginMessages ==
    \A u \in Accounts :
        LET sales_ == get_user_data(u, "sales")
            revenue == TotalAll(sales_, "total_amount")
            profit == revenue - TotalAll(sales_, "cost")
            \* profit_margin < 20 and > 40, the margin being 0 at revenue 0
            below == IF revenue > 0 THEN 100 * profit < 20 * revenue ELSE TRUE
            above == IF revenue > 0 THEN 100 * profit > 40 * revenue ELSE FALSE
            insights == generate_insights(u)
        IN  sales_ # <<>> =>
              /\ Len(LowMargins(insights)) = (IF below THEN 1 ELSE 0)
              /\ Len(HighMargins(insights)) = (IF above THEN 1 ELSE 0)
              /\ Len(LowMargins(insights)) + Len(HighMargins(insights)) <= 1
              /\ \A i \in 1..Len(LowMargins(insights)) :
                    LowMargins(insights)[i].type = "warning"
              /\ \A i \in 1..Len(HighMargins(insights)) :
                    HighMargins(insights)[i].type = "success"

\* C10 witness: one sale at price 5 and unit cost 4, a margin of exactly 20 %;
\* the dashboard shows no margin message
C10_Witness ==
    /\ OnDashboard
    /\ Len(get_user_data(session.username, "sales")) = 1
    /\ FracEq(rendered.metrics.profit_margin,
              FracOfInt(LOW_PROFIT_MARGIN_THRESHOLD))
    /\ LowMargins(rendered.insights) = <<>>
    /\ HighMargins(rendered.insights) = <<>>

\* the quantity a product sold over the records 1..n of a list, by index
RECURSIVE QuantitySold(_, _, _)
QuantitySold(sales_, product, n) ==
    IF n = 0 THEN 0
    ELSE QuantitySold(sales_, product, n - 1)
         + (IF sales_[n].product = product THEN sales_[n].quantity ELSE 0)

\* the products the model sells
Products == {"A", "B", "C"}

TopPerformers(insights) == Titled(insights, "Top Performer")

\* C11: for every non-empty sales list in which one product has strictly the
\* highest summed quantity, generate_insights holds exactly one top-performer
\* message, of severity success, naming that product and that sum.
C11_TopPerformer ==
    \A u \in Accounts :
        LET sales_ == get_user_data(u, "sales")
            n == Len(sales_)
        IN  \A p \in Products :
                (/\ n > 0
                 /\ \A q \in Products \ {p} :
                        QuantitySold(sales_, q, n) < QuantitySold(sales_, p, n))
                  => TopPerformers(generate_insights(u))
                        = <<[type |-> "success", title |-> "Top Performer",
                             message |-> [product |-> p,
                                          quantity |->
                                              QuantitySold(sales_, p, n)]]>>

\* C11 witness: the dashboard names B, sold 3 units in two sales, over A,
\* whose single sale of 2 units is the largest sale
C11_Witness ==
    /\ OnDashboard
    /\ Column(get_user_data(session.username, "sales"), "product")
          = <<"B", "A", "B">>
    /\ Column(get_user_data(session.username, "sales"), "quantity")
          = <<1, 2, 2>>
    /\ TopPerformers(rendered.insights)
          = <<Insight("success", "Top Performer",
                      [product |-> "B", quantity |-> 3])>>

\* the number of distinct products among the records 1..n, by index
RECURSIVE DistinctProducts(_, _)
DistinctProducts(sales_, n) ==
    IF n = 0 THEN 0
    ELSE DistinctProducts(sales_, n - 1)
         + (IF \E i \in 1..(n - 1) : sales_[i].product = sales_[n].product
            THEN 0 ELSE 1)

Diversities(insights) == Titled(insights, "Product Diversity")

\* C12: for every non-empty sales list, generate_insights holds the
\* info-severity diversity suggestion (once) iff the sales name fewer than 3
\* distinct products, and never when they name 3 or more.
C12_Diversity ==
    \A u \in Accounts :
        LET sales_ == get_user_data(u, "sales")
            k == DistinctProducts(sales_, Len(sales_))
            found == Diversities(generate_insights(u))
        IN  sales_ # <<>> =>
              /\ k < 3 => /\ Len(found) = 1
                          /\ found[1].type = "info"
                          /\ found[1].message.unique_products = k
              /\ k >= 3 => found = <<>>
              /\ \A i \in 1..Len(generate_insights(u)) :
                    generate_insights(u)[i].type = "info"
                        => generate_insights(u)[i].title = "Product Diversity"

\* C12 witness: the dashboard of four sales of three products shows no
\* diversity suggestion
C12_Witness ==
    /\ OnDashboard
    /\ Len(get_user_data(session.username, "sales")) = 4
    /\ ProductsOf(get_user_data(session.username, "sales")) = {"A", "B", "C"}
    /\ Diversities(rendered.insights) = <<>>

\* the sum of amount over the records 1..n whose status is Pending, by index
RECURSIVE PendingAmount(_, _)
PendingAmount(records, n) ==
    IF n = 0 THEN 0
    ELSE PendingAmount(records, n - 1)
         + (IF records[n].status = "Pending" THEN records[n].amount ELSE 0)

\* the sum of quantity * unit_price over the items 1..n, by index
RECURSIVE StockValue(_, _)
StockValue(inventory_, n) ==
    IF n = 0 THEN 0
    ELSE StockValue(inventory_, n - 1)
         + inventory_[n].quantity * inventory_[n].unit_price

\* C13: the metrics hold inventory_value = the sum of quantity * unit_price
\* over all items, pending_orders = the sum of amount over the orders whose
\* status is exactly Pending, and total_debts = the sum of amount over the
\* debts whose status is exactly Pending, of either type.
C13_ValueAndPendingSums ==
    \A u \in Accounts :
        LET inventory_ == get_user_data(u, "inventory")
            orders_ == get_user_data(u, "orders")
            debts_ == get_user_data(u, "debts")
            metrics == calculate_metrics(u)
        IN  metrics # NoMetrics =>
              /\ metrics.inventory_value
                    = StockValue(inventory_, Len(inventory_))
              /\ metrics.pending_orders = PendingAmount(orders_, Len(orders_))
              /\ metrics.total_debts = PendingAmount(debts_, Len(debts_))

\* C13 witness: the dashboard of a ledger with 3 items at 5, a Pending and a
\* Cancelled order, and a Pending Payable debt beside a Partially Paid one
\* shows 15, 5 and 4
C13_Witness ==
    /\ OnDashboard
    /\ Column(get_user_data(session.username, "inventory"), "quantity") = <<3>>
    /\ Column(get_user_data(session.username, "orders"), "status")
          = <<"Pending", "Cancelled">>
    /\ Column(get_user_data(session.username, "debts"), "status")
          = <<"Pending", "Partially Paid">>
    /\ get_user_data(session.username, "debts")[1].type = DEBT_TYPES[2]
    /\ rendered.metrics.inventory_value = 15
    /\ rendered.metrics.pending_orders = 5
    /\ rendered.metrics.total_debts = 4

ViewStep == rendered'.page \in {"dashboard", "welcome", "analytics"}

\* C15: a call of calculate_metrics, generate_insights,
\* get_product_performance or predict_monthly_revenue leaves the users,
\* businesses, sales, inventory, orders and debts collections of every
\* account as they were.
C15_AnalyticsFrame ==
    [][ViewStep =>
          /\ users' = users /\ businesses' = businesses
          /\ sales' = sales /\ inventory' = inventory
          /\ orders' = orders /\ debts' = debts]_vars

\* C15 witness: the analytics page shows the product table and the projection
\* of eight sales, one of them back-dated after a sale of today
C15_Witness ==
    /\ LoggedInUser
    /\ rendered.page = "analytics" /\ rendered.shown = "projection"
    /\ Len(rendered.product_stats) = 1
    /\ rendered.product_stats[1].quantity = 8
    /\ \E i \in 2..8 :
          /\ get_user_data(session.username, "sales")[i].date = 1
          /\ get_user_data(session.username, "sales")[i - 1].date = 2

\* the account names of SpecLedger, and one the store never sees
LedgerAccounts == {"shop1", "shop2", DEFAULT_ADMIN_USERNAME, "nobody"}

\* the list stored for an account in the file of a record type
Stored(file, u) == IF u \in DOMAIN file THEN file[u] ELSE <<>>

\* an append to a stored list gave the new record the id (length before) + 1
SequentialAppend(old, new) ==
    /\ Len(new) = Len(old) + 1 => new[Len(new)].id = Len(old) + 1
    /\ \A i \in 1..Len(new) : new[i].id = i
    /\ \A i, j \in 1..Len(new) : new[i].id = new[j].id => i = j

\* C16: with records added one at a time by one session, every record of an
\* account's sales, inventory, orders and debts lists is stored with
\* id = (length of the list before the append) + 1; the i-th record of each
\* list has id i and the ids within a list are unique.
C16_SequentialIds ==
    [][\A u \in LedgerAccounts :
          /\ SequentialAppend(Stored(sales, u), Stored(sales', u))
          /\ SequentialAppend(Stored(inventory, u), Stored(inventory', u))
          /\ SequentialAppend(Stored(orders, u), Stored(orders', u))
          /\ SequentialAppend(Stored(debts, u), Stored(debts', u))]_vars

\* C16 witness: the second shop, signed in after the first filled its lists,
\* has stored its own records 1, 2 beside the first shop's 1, 2
C16_Witness ==
    /\ session.username = "shop2"
    /\ Column(Stored(sales, "shop1"), "id") = <<1, 2>>
    /\ Column(Stored(sales, "shop2"), "id") = <<1, 2>>
    /\ Column(Stored(orders, "shop1"), "id") = <<1>>
    /\ Column(Stored(orders, "shop2"), "id") = <<1>>
    /\ Column(Stored(inventory, "shop2"), "id") = <<1>>
    /\ Column(Stored(debts, "shop2"), "id") = <<1>>

\* one list is the beginning of another
IsPrefix(old, new) ==
    /\ Len(old) <= Len(new)
    /\ \A i \in 1..Len(old) : new[i] = old[i]

RecordTypes == {"sales", "inventory", "orders", "debts"}

\* the list stored for an account and a record type, read from the files
StoredList(u, data_type) ==
    CASE data_type = "sales" -> Stored(sales, u)
      [] data_type = "inventory" -> Stored(inventory, u)
      [] data_type = "orders" -> Stored(orders, u)
      [] data_type = "debts" -> Stored(debts, u)

\* the same list after the step
StoredListAfter(u, data_type) ==
    CASE data_type = "sales" -> Stored(sales', u)
      [] data_type = "inventory" -> Stored(inventory', u)
      [] data_type = "orders" -> Stored(orders', u)
      [] data_type = "debts" -> Stored(debts', u)

\* the accounts that have a list of a record type after the step
ListedAfter(data_type) ==
    CASE data_type = "sales" -> DOMAIN sales'
      [] data_type = "inventory" -> DOMAIN inventory'
      [] data_type = "orders" -> DOMAIN orders'
      [] data_type = "debts" -> DOMAIN debts'

\* the step is a call of save_user_data
SaveStep == rendered'.page = "store" /\ rendered'.call = "save_user_data"

\* C18: save_user_data(account, type, record) with a type among sales,
\* inventory, orders, debts returns True and leaves get_user_data(account,
\* type) = the list before with the record added last (the list created when
\* the account had none); with any other type it returns False and every
\* stored file is unchanged.
C18_SaveAppends ==
    [][SaveStep =>
          IF rendered'.data_type \in RecordTypes
          THEN /\ rendered'.returned = TRUE
               /\ rendered'.username \in ListedAfter(rendered'.data_type)
               /\ StoredListAfter(rendered'.username, rendered'.data_type)
                     = StoredList(rendered'.username, rendered'.data_type)
                          \o <<rendered'.new_data>>
          ELSE /\ rendered'.returned = FALSE
               /\ users' = users /\ businesses' = businesses
               /\ sales' = sales /\ inventory' = inventory
               /\ orders' = orders /\ debts' = debts]_vars

\* C18 witness: the second save to the debts list of an account that has no
\* sales list returned True and left the two records in the order saved
C18_Witness ==
    /\ rendered.page = "store" /\ rendered.call = "save_user_data"
    /\ rendered.username = "shop2" /\ rendered.data_type = "debts"
    /\ rendered.new_data = [id |-> 2]
    /\ rendered.returned = TRUE
    /\ "shop2" \notin DOMAIN sales
    /\ get_user_data("shop2", "debts") = <<[id |-> 1], [id |-> 2]>>

\* C19: get_user_data returns the empty list for an account without records
\* of the type asked for (an account name the store never saw included) and
\* for a type outside sales, inventory, orders, debts; otherwise it returns
\* the account's stored records in the order they were appended (the i-th
\* appended record, which the forms number i, at place i).
C19_GetUserData ==
    \A u \in LedgerAccounts :
        /\ \A data_type \in {"users", "businesses", "notes"} :
              get_user_data(u, data_type) = <<>>
        /\ \A data_type \in RecordTypes :
              LET got == get_user_data(u, data_type)
              IN  /\ StoredList(u, data_type) = <<>> => got = <<>>
                  /\ got = StoredList(u, data_type)
                  /\ \A i \in 1..Len(got) : got[i].id = i

\* C19 witness: the sales page counts the two sales of the first shop while
\* the second shop has an empty list, the admin and an unknown name none
C19_Witness ==
    /\ session.username = "shop1"
    /\ rendered.page = "sales" /\ rendered.count = 2
    /\ Column(get_user_data("shop1", "sales"), "id") = <<1, 2>>
    /\ "shop2" \in DOMAIN sales /\ get_user_data("shop2", "sales") = <<>>
    /\ DEFAULT_ADMIN_USERNAME \notin DOMAIN sales
    /\ get_user_data(DEFAULT_ADMIN_USERNAME, "sales") = <<>>
    /\ get_user_data("nobody", "sales") = <<>>
    /\ get_user_data("shop1", "users") = <<>>

\* the step is a call of update_user_data
UpdateStep == rendered'.page = "store" /\ rendered'.call = "update_user_data"

\* C20: update_user_data(account, type, list) leaves get_user_data(account,
\* type) = the given list, the lists of every other account for that type
\* and of every account for the other three types as they were, and the
\* same call made again leaves the store as the first call left it.
C20_UpdateReplaces ==
    [][(UpdateStep /\ rendered'.data_type \in RecordTypes) =>
          /\ rendered'.returned = TRUE
          /\ StoredListAfter(rendered'.username, rendered'.data_type)
                = rendered'.updated_list
          /\ \A u \in StoreAccounts \cup {DEFAULT_ADMIN_USERNAME, "nobody"} :
                \A data_type \in RecordTypes :
                    (u # rendered'.username \/ data_type # rendered'.data_type)
                      => /\ StoredListAfter(u, data_type)
                              = StoredList(u, data_type)
                         /\ u \in ListedAfter(data_type)
                              <=> u \in DOMAIN load_file(data_type)
          /\ users' = users /\ businesses' = businesses
          /\ rendered = rendered' =>
                /\ sales' = sales /\ inventory' = inventory
                /\ orders' = orders /\ debts' = debts]_vars

\* C20 witness: an update replaced the two saved sales of one account by the
\* list 2, 1 while the other account keeps its saved sales and debts
C20_Witness ==
    /\ rendered.page = "store" /\ rendered.call = "update_user_data"
    /\ rendered.username = "shop1" /\ rendered.data_type = "sales"
    /\ rendered.updated_list = <<[id |-> 2], [id |-> 1]>>
    /\ rendered.returned = TRUE
    /\ get_user_data("shop1", "sales") = <<[id |-> 2], [id |-> 1]>>
    /\ get_user_data("shop1", "debts") = <<[id |-> 1]>>
    /\ get_user_data("shop2", "sales") = <<[id |-> 1], [id |-> 2]>>
    /\ get_user_data("shop2", "debts") = <<[id |-> 1]>>

\* a record form has just stored a record (no account was registered)
AppendStep ==
    /\ LoggedInUser
    /\ users' = users
    /\ <<sales', inventory', orders', debts'>> # <<sales, inventory, orders, debts>>

\* C21: with operations running one after another, appending a record for
\* account A and record type T changes A's list of type T only: the lists of
\* every other account, A's lists of the other three types, the users and
\* the businesses collections stay as they were, and the metrics and the
\* insights of every other account are the same before and after.
C21_AppendFrame ==
    [][AppendStep =>
          \E data_type \in RecordTypes :
              /\ StoredListAfter(session.username, data_type)
                    # StoredList(session.username, data_type)
              /\ \A u \in LedgerAccounts, other \in RecordTypes :
                    (u # session.username \/ other # data_type)
                      => /\ StoredListAfter(u, other) = StoredList(u, other)
                         /\ u \in ListedAfter(other)
                              <=> u \in DOMAIN load_file(other)
              /\ users' = users /\ businesses' = businesses
              /\ \A u \in LedgerAccounts \ {session.username} :
                    /\ calculate_metrics(u)' = calculate_metrics(u)
                    /\ generate_insights(u)' = generate_insights(u)]_vars

\* C21 witness: the second shop, holding an item, an order and a debt, has
\* just stored its first sale beside the first shop's sale and insights
C21_Witness ==
    /\ session.username = "shop2"
    /\ rendered.page = "sales" /\ rendered.count = 1 /\ ~rendered.error
    /\ Stored(sales, "shop1") # <<>>
    /\ Stored(inventory, "shop2") # <<>>
    /\ Stored(orders, "shop2") # <<>>
    /\ Stored(debts, "shop2") # <<>>
    /\ Len(generate_insights("shop1")) = 2
    /\ Len(generate_insights("shop2")) = 4


(***************************************************************************)
(* Two sessions interleaving (SpecRace).                                   *)
(***************************************************************************)
\* session t ends a save_user_data call in this step
RaceSaveStep(t) == running[t].pc = "loaded" /\ running'[t].pc = "idle"

\* no script is between two of its steps
AllIdle == \A t \in Threads : running[t].pc = "idle"

\* C22: two sessions appending to the same account and type race.  Every
\* save_user_data call that ends returns True and leaves the file as the
\* copy it loaded with its record at the end of the account's list, whatever
\* was saved since the load; so an interleaving reaches a state where more
\* calls returned True than the list holds records (a lost update), and two
\* forms that took their id from the same length store two records with the
\* same id.
C22_RacyAppends ==
    [][\A t \in Threads :
          RaceSaveStep(t) =>
              /\ running'[t].returned
                    = Append(running[t].returned, running[t].new_data)
              /\ Stored(sales', running[t].username)
                    = Append(Stored(running[t].all_data, running[t].username),
                             running[t].new_data)
              /\ \A u \in LedgerAccounts \ {running[t].username} :
                    Stored(sales', u) = Stored(running[t].all_data, u)]_vars

C22_Witness ==
    /\ AllIdle
    /\ running[1].username = "shop1" /\ running[2].username = "shop1"
    /\ Len(running[1].returned) = 2 /\ Len(running[2].returned) = 2
    /\ Len(Stored(sales, "shop1")) = 3
    /\ \E i, j \in 1..Len(Stored(sales, "shop1")) :
          /\ i < j
          /\ Stored(sales, "shop1")[i].id = Stored(sales, "shop1")[j].id
          /\ Stored(sales, "shop1")[i].customer = "customer1"
          /\ Stored(sales, "shop1")[j].customer = "customer2"

\* C23: the lists of different accounts stay isolated when two sessions
\* interleave.  Session 1 registered shop1 and signed in to it, session 2
\* registered shop2 and signed in to it, so each appended only to its own
\* account, at the same time as the other or while the other account was
\* being registered; with every operation complete, each account's list
\* holds every record whose append returned True.
C23_IsolatedAccounts ==
    (AllIdle /\ running[1].username = "shop1" /\ running[2].username = "shop2")
        => \A t \in Threads :
              \A i \in 1..Len(running[t].returned) :
                  \E j \in 1..Len(Stored(sales, running[t].username)) :
                      Stored(sales, running[t].username)[j]
                          = running[t].returned[i]

(***************************************************************************)
(* The sale record's arithmetic (SpecForm).                                *)
(***************************************************************************)
\* the last record of a list
Last(records) == records[Len(records)]

\* C24: every persisted sale satisfies total_amount = quantity * unit_price,
\* cost = quantity * cost_per_unit (the unit cost typed into the form that
\* stored it) and profit = total_amount - cost, and keeps its values in every
\* later state: a step that stores a sale stores these values at the end of
\* the list, and every step leaves the records already stored as they are.
C24_SaleArithmetic ==
    [][/\ \A u \in Accounts :
             /\ IsPrefix(Stored(sales, u), Stored(sales', u))
             /\ \A i \in 1..Len(Stored(sales', u)) :
                   LET sale == Stored(sales', u)[i]
                   IN  /\ sale.total_amount = sale.quantity * sale.unit_price
                       /\ sale.profit = sale.total_amount - sale.cost
       /\ \A product \in {"", "A"}, quantity \in {1, 2}, unit_price \in {0, 5},
             cost_per_unit \in {2, 3, 4, 6} :
             ( /\ LoggedInUser
               /\ add_sale_form(session.username, product, quantity,
                                unit_price, cost_per_unit, 1, "")
               /\ sales' # sales )
                 => LET sale == Last(Stored(sales', session.username))
                    IN  /\ Len(Stored(sales', session.username))
                              = Len(Stored(sales, session.username)) + 1
                        /\ sale.quantity = quantity
                        /\ sale.unit_price = unit_price
                        /\ sale.total_amount = quantity * unit_price
                        /\ sale.cost = quantity * cost_per_unit
                        /\ sale.profit = quantity * unit_price
                                            - quantity * cost_per_unit]_vars

\* C24 witness: a sale of 2 units at price 5 and unit cost 6 (a loss of 2)
\* is still stored as it was after a second sale of 1 unit at unit cost 2
C24_Witness ==
    /\ rendered.page = "sales" /\ ~rendered.error
    /\ Len(Stored(sales, "shop1")) = 2
    /\ Stored(sales, "shop1")[1].quantity = 2
    /\ Stored(sales, "shop1")[1].total_amount = 10
    /\ Stored(sales, "shop1")[1].cost = 12
    /\ Stored(sales, "shop1")[1].profit = -2
    /\ Stored(sales, "shop1")[2].quantity = 1
    /\ Stored(sales, "shop1")[2].profit = 3

(***************************************************************************)
(* Registration (SpecLedger).                                              *)
(***************************************************************************)
\* C25: register_user with a name that is already a key of users (the admin
\* name included) returns failure and leaves all six collections unchanged;
\* with a new name it returns success, and afterwards the name has a users
\* entry of type 'user', a businesses entry, and an empty list in each of
\* the four record collections.
C25_RegisterUser ==
    [][\A u \in {"shop1", "shop2", DEFAULT_ADMIN_USERNAME} :
          registration_form(u, "secret1", "secret1", "Shop", "Retail Shop")
            => IF u \in DOMAIN users
               THEN /\ rendered'.message = "Username already exists"
                    /\ users' = users /\ businesses' = businesses
                    /\ sales' = sales /\ inventory' = inventory
                    /\ orders' = orders /\ debts' = debts
               ELSE /\ rendered'.message = "Registration successful!"
                    /\ u \in DOMAIN users' /\ users'[u].type = "user"
                    /\ u \in DOMAIN businesses'
                    /\ \A data_type \in RecordTypes :
                          /\ u \in ListedAfter(data_type)
                          /\ StoredListAfter(u, data_type) = <<>>]_vars

\* C25 witness: the second shop has just been registered, beside a first
\* shop that holds records; it has its entries and four empty lists
C25_Witness ==
    /\ rendered = [page |-> "login", message |-> "Registration successful!"]
    /\ Stored(sales, "shop1") # <<>>
    /\ Stored(debts, "shop1") # <<>>
    /\ users["shop2"].type = "user"
    /\ "shop2" \in DOMAIN businesses
    /\ \A data_type \in RecordTypes :
          /\ "shop2" \in DOMAIN load_file(data_type)
          /\ StoredList("shop2", data_type) = <<>>

(***************************************************************************)
(* What the sale form lets through (SpecForm).                             *)
(***************************************************************************)
\* C26: every sale persisted through the form has a non-empty product, a
\* quantity of at least 1 and a unit_price above 0; a submission with an
\* empty product or a unit_price of 0 shows the error and leaves the store
\* unchanged.  So whenever calculate_metrics returns metrics, total_revenue
\* is above 0, and the branch for a revenue of 0 is never taken.
C26_FormValidation ==
    [][/\ \A u \in Accounts :
             /\ \A i \in 1..Len(Stored(sales', u)) :
                   /\ Stored(sales', u)[i].product # ""
                   /\ Stored(sales', u)[i].quantity >= 1
                   /\ Stored(sales', u)[i].unit_price > 0
             /\ \A metrics \in {calculate_metrics(u)'} :
                   metrics # NoMetrics
                     => /\ metrics.total_revenue > 0
                        /\ metrics.profit_margin
                              = Frac(metrics.total_profit * 100,
                                     metrics.total_revenue)
       /\ \A product \in {"", "A"}, quantity \in {1, 2}, unit_price \in {0, 5},
             cost_per_unit \in {2, 3, 4, 6} :
             ( /\ LoggedInUser
               /\ add_sale_form(session.username, product, quantity,
                                unit_price, cost_per_unit, 1, "")
               /\ (product = "" \/ unit_price = 0) )
                 => /\ rendered'.error
                    /\ users' = users /\ businesses' = businesses
                    /\ sales' = sales /\ inventory' = inventory
                    /\ orders' = orders /\ debts' = debts]_vars

\* C26 witness: with one sale stored, a submission without a product or
\* without a price has just been refused; the metrics show a revenue of 5
C26_Witness ==
    /\ LoggedInUser
    /\ rendered.page = "sales" /\ rendered.error /\ rendered.count = 1
    /\ Len(Stored(sales, "shop1")) = 1
    /\ Stored(sales, "shop1")[1].product = "A"
    /\ Stored(sales, "shop1")[1].unit_price = 5
    /\ calculate_metrics("shop1") # NoMetrics
    /\ calculate_metrics("shop1").total_revenue = 5

(***************************************************************************)
(* The shape of the insights list (Spec).                                  *)
(***************************************************************************)
\* the four severities display_ai_insights knows
Severities == {"success", "warning", "error", "info"}

\* C27: generate_insights returns a non-empty list exactly when the account
\* has at least one sale, the top performer always being there (first), so
\* the dashboard never shows its 'Add more sales data' fallback; every
\* insight's type is one of success, warning, error, info; and the list has
\* at most 6 entries.
C27_InsightsShape ==
    /\ \A u \in Accounts :
          LET insights == generate_insights(u)
          IN  /\ insights # <<>> <=> get_user_data(u, "sales") # <<>>
              /\ insights # <<>>
                    => /\ insights[1].title = "Top Performer"
                       /\ Len(TopPerformers(insights)) = 1
              /\ \A i \in 1..Len(insights) : insights[i].type \in Severities
              /\ Len(insights) <= 6
    /\ rendered.page = "dashboard"
          => /\ rendered.insights_invoked
             /\ rendered.insights # <<>>
             /\ ~rendered.fallback

\* C27 witness: the dashboard shows five insights of all four severities
\* (top performer, low margin, high debt, low stock, diversity)
C27_Witness ==
    /\ OnDashboard
    /\ Len(rendered.insights) = 5
    /\ {rendered.insights[i].type : i \in 1..5} = Severities
    /\ rendered.insights = generate_insights(session.username)
    /\ ~rendered.fallback

(***************************************************************************)
(* Who sees which page (Spec).                                             *)
(***************************************************************************)
\* C28: the admin dashboard is rendered only in a session whose last
\* successful login was for an account of type 'admin'; register_user
\* creates accounts of type 'user' only and never creates or overwrites an
\* admin (the one admin entry stays as init_data_files wrote it); a session
\* that is not logged in is always shown the login page.
C28_AdminOnly ==
    /\ rendered.page = "admin"
          => /\ session.logged_in
             /\ session.user_type = "admin"
             /\ session.username \in DOMAIN users
             /\ users[session.username].type = "admin"
    /\ \A u \in DOMAIN users :
          IF u = DEFAULT_ADMIN_USERNAME
          THEN users[u] = [password |-> hash_password(DEFAULT_ADMIN_PASSWORD),
                           type |-> "admin"]
          ELSE users[u].type = "user"
    /\ DEFAULT_ADMIN_USERNAME \in DOMAIN users
    /\ ~session.logged_in => rendered.page = "login"
    /\ LoggedInUser => rendered.page \notin {"admin", "login"}

\* C28 witness: the admin dashboard is shown to the signed-in admin while a
\* shop is registered
C28_Witness ==
    /\ rendered.page = "admin"
    /\ session.logged_in /\ session.username = DEFAULT_ADMIN_USERNAME
    /\ "shop1" \in DOMAIN users
    /\ users["shop1"].type = "user"

(***************************************************************************)
(* Logout (Spec).                                                          *)
(***************************************************************************)
\* C29: logout from either dashboard returns the session to its initial
\* state: logged_in False, and user_type, username and business_name all
\* None.  (No other handler ends a login, so a session that is not logged in
\* is in that state.)
C29_LogoutResets ==
    ~session.logged_in
        => session = [logged_in |-> FALSE, user_type |-> None,
                      username |-> None, business_name |-> None]

(***************************************************************************)
(* Login (SpecAccess).                                                     *)
(***************************************************************************)
\* C30: login_user(u, p) succeeds exactly when u is a key of users and the
\* stored hash equals the hash of p.  After a successful
\* register_user(u, p, name, type), login_user(u, p) succeeds and returns
\* the type 'user' and that business name, and login_user(u, q) fails for
\* every q whose hash differs, in that state and (no step changing a users
\* entry) in every later one.  A failed login leaves the session and the
\* store unchanged.
C30_Login ==
    [][/\ \A u \in AccessNames, p \in PasswordInputs :
             /\ login_user(u, p)'.success
                   <=> /\ u \in DOMAIN users'
                       /\ users'[u].password = hash_password(p)
             /\ u \in DOMAIN users => login_user(u, p)' = login_user(u, p)
             /\ ( /\ login_button(u, p)
                  /\ ~login_user(u, p).success )
                   => /\ session' = session
                      /\ rendered'.page = "login"
                      /\ users' = users /\ businesses' = businesses
                      /\ sales' = sales /\ inventory' = inventory
                      /\ orders' = orders /\ debts' = debts
       /\ \A u \in AccessNames, p \in NewPasswordInputs,
             c \in NewPasswordInputs, b \in AccessBusinessNames :
             ( /\ registration_form(u, p, c, b, "Retail Shop")
               /\ rendered'.message = "Registration successful!" )
                 => /\ login_user(u, p)'
                          = [success |-> TRUE, user_type |-> "user",
                             business_name |-> b]
                    /\ \A q \in PasswordInputs :
                          hash_password(q) # hash_password(p)
                            => login_user(u, q)'
                                  = [success |-> FALSE, user_type |-> None,
                                     business_name |-> None]]_vars

\* C30 witness: two registered shops can each sign in with their password
\* and get their own business name, and a login with another password has
\* just failed, the session still fresh
C30_Witness ==
    /\ rendered = [page |-> "login", message |-> "Invalid credentials"]
    /\ session = [logged_in |-> FALSE, user_type |-> None,
                  username |-> None, business_name |-> None]
    /\ login_user("shop1", "secret1")
          = [success |-> TRUE, user_type |-> "user", business_name |-> "Shop"]
    /\ login_user("shop2", "secret1")
          = [success |-> TRUE, user_type |-> "user", business_name |-> "Store"]
    /\ ~login_user("shop1", "abc").success
    /\ ~login_user("shop1", "admin123").success
    /\ ~login_user(DEFAULT_ADMIN_USERNAME, "secret1").success
====
